---- MODULE Spec2Model ----
(***************************************************************************)
(* Session replayer: the replay pipeline of replay-session.js (latest      *)
(* revision; class PostHogSessionReplay) driven by main.js (cliEntry/run). *)
(*                                                                         *)
(* One replaySession() call reads the recordings log of a recording id,    *)
(* rewrites every recording under the identity mapping of the call,        *)
(* loads and rewrites the correlated application events, and dispatches    *)
(* both to the ingestion endpoints unless the call is a dry run.           *)
(*                                                                         *)
(* Spec follows the calls; TimeSpec, CodecSpec and RepairSpec follow the   *)
(* content of one chunk through the steps that a call takes in one go:     *)
(* its timestamps, a nested gzip blob from capture (capture proxy,         *)
(* decompressNestedSnapshots) to replay and back, and its DOM tree.        *)
(* Rev1Spec follows the first revision of the script, CaptureSpec the      *)
(* capture proxy that writes the two files of the capture log.             *)
(* CopySpec follows the objects that the transformation copies, SingleSpec *)
(* the second revision (one POST per event), HandlersSpec the handlers of  *)
(* the capture proxies while several are in progress, GenSpec the loop of  *)
(* run() over the days of the date range.                                  *)
(***************************************************************************)
EXTENDS Integers, Sequences, FiniteSets, TLC

\* ------------------------------------------------------------------ bounds
MaxRecordings == 2      \* records (lines) of one <id>-recordings.jsonl
MaxChunks == 2          \* snapshot chunks of one recording record
MaxEvents == 2          \* application events of one <id>-events.jsonl
MaxReplays == 1         \* replaySession() calls issued by one run()

\* ------------------------------------------------------------- value sets
Undefined == "undefined"

SessionIds == {"A", "A2"}
WindowIds == {"W1", "W2"}
OrigUsers == {"visitor"}
Users == {"user-0"}
Answers == {"Y", "y", ""}
HttpStatuses == {200, 413}

\* crypto.randomUUID(): the n-th call of the process returns the n-th
\* element; every call returns a value never returned before.
UuidPool ==
  << "uuid-01", "uuid-02", "uuid-03", "uuid-04", "uuid-05", "uuid-06",
     "uuid-07", "uuid-08", "uuid-09", "uuid-10", "uuid-11", "uuid-12",
     "uuid-13", "uuid-14", "uuid-15", "uuid-16", "uuid-17", "uuid-18",
     "uuid-19", "uuid-20", "uuid-21", "uuid-22", "uuid-23", "uuid-24" >>

randomUUID(n) == UuidPool[n + 1]

SeqsUpTo(S, n) == UNION {[1..k -> S] : k \in 0..n}

\* A snapshot chunk of a recording record (one $snapshot event of the
\* captured /s/ payload).  properties = FALSE: the chunk has no properties
\* object, so none of the other fields exists.
Chunk(p, s, w, i, d) ==
  [properties |-> p, session_id |-> s, window_id |-> w,
   is_identified |-> i, distinct_id |-> d]

NoPropsChunk == Chunk(FALSE, Undefined, Undefined, FALSE, Undefined)

SourceChunks ==
  {Chunk(TRUE, s, w, i, d) :
     s \in SessionIds, w \in WindowIds, i \in BOOLEAN, d \in OrigUsers}
  \cup {NoPropsChunk}

\* A record of the recordings log.  hasDecompressed = FALSE: the record has
\* no decompressed array (capture wrote it on a fallback path).
Recording(h, cs) == [hasDecompressed |-> h, decompressed |-> cs]

\* The recording of the scenario of spec section 8: session "A", window
\* "W1", three snapshot events.
ScenarioRecordings ==
  {Recording(TRUE, cs) :
     cs \in [1..3 -> {c \in SourceChunks :
                        c.session_id = "A" /\ c.window_id = "W1"}]}

\* Mutant of HasDecompressedArray: the guard of modifyAndRecompress is
\* dropped.
HasDecompressedArrayAlways(rec) == TRUE

\* The guard of modifyAndRecompress: the record has a decompressed array.
HasDecompressedArray(rec) == rec.hasDecompressed

RecordingInputs ==
  {Recording(TRUE, cs) : cs \in SeqsUpTo(SourceChunks, MaxChunks)}
  \cup ScenarioRecordings
  \cup {Recording(FALSE, <<>>)}

\* A logged application event.
Event(s, i, d) == [session_id |-> s, is_identified |-> i, distinct_id |-> d]

SourceEvents ==
  {Event(s, i, d) : s \in SessionIds, i \in BOOLEAN, d \in OrigUsers}
  \cup {Event(Undefined, FALSE, d) : d \in OrigUsers}

\* The events log of a recording id.  exists = FALSE: no such file.
EventsFile(x, es) == [exists |-> x, events |-> es]

EventsFileInputs ==
  {EventsFile(TRUE, es) : es \in SeqsUpTo(SourceEvents, MaxEvents)}
  \cup {EventsFile(FALSE, <<>>)}

\* ------------------------------------------------------ JS Map (ordered)
\* A Map is the sequence of its entries <<key, value>> in insertion order.
MapHas(m, k) == \E i \in 1..Len(m) : m[i][1] = k

MapIndex(m, k) == CHOOSE i \in 1..Len(m) : m[i][1] = k

MapGet(m, k) == IF MapHas(m, k) THEN m[MapIndex(m, k)][2] ELSE Undefined

MapSet(m, k, v) ==
  IF MapHas(m, k)
  THEN [m EXCEPT ![MapIndex(m, k)] = <<k, v>>]
  ELSE Append(m, <<k, v>>)

MapKeys(m) == {m[i][1] : i \in 1..Len(m)}

MapValues(m) == {m[i][2] : i \in 1..Len(m)}

\* --------------------------------------------------- pure transformations
\* A JS truthiness test of an id-valued property.
Truthy(v) == v # Undefined

\* originalEvent?.properties?.<field> of decompressed[0].
FirstField(rec, field) ==
  IF Len(rec.decompressed) = 0
  THEN Undefined
  ELSE IF rec.decompressed[1].properties
       THEN rec.decompressed[1][field]
       ELSE Undefined

\* Mutant of GetOrCreate: the has() test is dropped, the entry is always set.
GetOrCreateOverwrite(m, k, v) == MapSet(m, k, v)

\* if (!map.has(k)) map.set(k, v)
GetOrCreate(m, k, v) == IF MapHas(m, k) THEN m ELSE MapSet(m, k, v)

\* Mutant of SubstituteUser: the configured user id in both branches.
SubstituteUserAlwaysTarget(identified, cfg) == cfg.userId

\* The user id substituted for a source marked ($is_identified) or not.
SubstituteUser(identified, cfg) ==
  IF identified THEN cfg.userId ELSE cfg.anonId

\* Mutant of ModifyChunk: distinct_id is kept, as in the first revision.
ModifyChunkKeepUser(chunk, newSessionId, newWindowId, cfg) ==
  IF chunk.properties
  THEN [chunk EXCEPT
          !.session_id = IF Truthy(@) THEN newSessionId ELSE @,
          !.window_id = IF Truthy(@) THEN newWindowId ELSE @]
  ELSE chunk

\* The body of chunks.forEach in modifyAndRecompress.
ModifyChunk(chunk, newSessionId, newWindowId, cfg) ==
  IF chunk.properties
  THEN [chunk EXCEPT
          !.session_id = IF Truthy(@) THEN newSessionId ELSE @,
          !.window_id = IF Truthy(@) THEN newWindowId ELSE @,
          !.distinct_id = SubstituteUser(chunk.is_identified, cfg)]
  ELSE chunk

\* Mutant of ModifyChunks: the anonymous id is one per record, taken from the
\* record's own new window id.
ModifyChunksFreshAnon(cs, newSessionId, newWindowId, cfg) ==
  [j \in 1..Len(cs) |->
     ModifyChunk(cs[j], newSessionId, newWindowId,
                 [cfg EXCEPT !.anonId = newWindowId])]

\* chunks.forEach over the clone of recording.decompressed.
ModifyChunks(cs, newSessionId, newWindowId, cfg) ==
  [j \in 1..Len(cs) |-> ModifyChunk(cs[j], newSessionId, newWindowId, cfg)]

\* Mutant of ModifyEvent: the session id of the event is not rewritten.
ModifyEventKeepSession(event, newSessionId, cfg) ==
  IF Truthy(event.session_id)
  THEN [event EXCEPT
          !.distinct_id = SubstituteUser(event.is_identified, cfg)]
  ELSE event

\* The rewrite of one matching event in loadAndModifyEvents.
ModifyEvent(event, newSessionId, cfg) ==
  IF Truthy(event.session_id)
  THEN [event EXCEPT
          !.session_id = newSessionId,
          !.distinct_id = SubstituteUser(event.is_identified, cfg)]
  ELSE event

\* Mutant of MatchesSession: every event that has a session id is taken.
MatchesSessionAny(event, originalSessionId) == Truthy(event.session_id)

\* Only events whose session id is the original session id are processed.
MatchesSession(event, originalSessionId) ==
  Truthy(event.session_id) /\ event.session_id = originalSessionId

\* batchData as returned by loadAndModifyEvents; isNull: it returned null.
BatchData(n, b) == [isNull |-> n, batch |-> b]

NullBatch == BatchData(TRUE, <<>>)

\* Mutant of LoadAndModifyEventsResult: the modified events are put in
\* front of the batch (unshift for push).
LoadAndModifyEventsUnshift(file, originalSessionId, newSessionId, cfg) ==
  LET matching == SelectSeq(file.events,
                            LAMBDA e : MatchesSession(e, originalSessionId))
      n == Len(matching)
      modified == [j \in 1..n |->
                     ModifyEvent(matching[n + 1 - j], newSessionId, cfg)]
  IN IF ~file.exists \/ Len(file.events) = 0 \/ n = 0
     THEN NullBatch
     ELSE BatchData(FALSE, modified)

LoadAndModifyEventsResult(file, originalSessionId, newSessionId, cfg) ==
  LET matching == SelectSeq(file.events,
                            LAMBDA e : MatchesSession(e, originalSessionId))
      modified == [j \in 1..Len(matching) |->
                     ModifyEvent(matching[j], newSessionId, cfg)]
  IN IF ~file.exists \/ Len(file.events) = 0 \/ Len(matching) = 0
     THEN NullBatch
     ELSE BatchData(FALSE, modified)

\* Mutant of DryRunParam: the default of the option is false.
DryRunParamDefaultLive(arg) == arg = "true"

\* The default of the dryRun option: { dryRun = true } = {}.
DryRunParam(arg) == IF arg = Undefined THEN TRUE ELSE arg = "true"

\* res.statusCode >= 200 && res.statusCode < 300
Is2xx(status) == status >= 200 /\ status < 300

\* Mutant of Confirmed: the comparison ignores case.
ConfirmedAnyCase(ans) == ans \in {"Y", "y"}

\* answer === "Y"
Confirmed(ans) == ans = "Y"

Response(d, st) == [defined |-> d, status |-> st]

\* The targetHost that a caller of the class passes: none, or a host of
\* its own.
TargetHostInputs == {Undefined, "eu.i.posthog.com"}

\* constructor: targetHost: config.targetHost || "us.i.posthog.com"
TargetHost(host) == IF host = Undefined THEN "us.i.posthog.com" ELSE host

\* The host that a request is written to: hostname of the options of
\* sendToPostHog, and the url of the fetch of sendEventsToPostHog.
RequestHost(kind, cfg) ==
  IF kind = "recording" THEN cfg.targetHost ELSE "us.i.posthog.com"

\* Mutant of EventsReadOutcome: every read error is thrown again.
EventsReadOutcomeRethrow(code) == "rethrown"

\* The catch block of loadAndModifyEvents: ENOENT returns null, any other
\* error is thrown again.
EventsReadOutcome(code) == IF code = "ENOENT" THEN "null" ELSE "rethrown"

\* Mutant of CatchOutcome: the error is logged and the call returns.
CatchOutcomeSwallow(error) == "resolved"

\* The catch block of replaySession: console.error, then throw error.
CatchOutcome(error) == "rejected"

\* ------------------------------------------------------------------ state
VARIABLES
  phase,              \* position of cliEntry / of a direct caller
  answer,             \* the answer given to the confirmation prompt
  replaysDone,        \* replaySession() calls completed by the current run
  modeArg,            \* the dryRun option as passed to replaySession
  pc,                 \* position of the current replaySession() call
  dryRun,             \* the dryRun option after the default is applied
  config,             \* this.config of the current instance
  eventsFile,         \* content of <recordingId>-events.jsonl
  numRecordings,      \* number of records of <recordingId>-recordings.jsonl
  recIdx,             \* index of the record being processed
  recording,          \* the record being processed, as loaded
  chunks,             \* chunks returned by modifyAndRecompress
  identifiers,        \* identifiers returned by modifyAndRecompress
  newSessionIds,      \* Map original session id -> new session id
  newWindowIds,       \* Map original window id -> new window id
  entryIdx,           \* position of the iteration of newSessionIds.entries()
  batchData,          \* result of the last loadAndModifyEvents
  recordingResponses, \* responses pushed so far
  failure,            \* why the call rejected
  uuidCtr,            \* number of crypto.randomUUID() calls so far
  recPosts,           \* recording POSTs issued by the current call
  batchPosts,         \* batch POSTs issued by the current call
  inFlight,           \* batch POSTs issued and not yet answered
  dispatchLog,        \* dispatch steps of the record being processed
  dataSent,           \* some request has been written to the network
  batchFailed         \* a batch POST was answered with a non-2xx status

\* The content of one snapshot chunk and of its correlated events, followed
\* through the steps of capture and of the transformation.
VARIABLES
  timeInput,          \* source timestamps and config.timestamp of a call
  timeChunk,          \* the chunk's timestamps after modifyAndRecompress
  timeBatch,          \* the event timestamps after loadAndModifyEvents
  timePc,             \* position in the transformation of the timestamps
  codecSnapshot,      \* an entry of $snapshot_data with a nested blob
  codecLogged,        \* that entry as capture logged it
  codecWarned,        \* recompressNestedSnapshots logged a failure
  codecPc,            \* position of the entry between capture and replay
  repairSnapshot,     \* an entry of $snapshot_data with a DOM tree
  repairPc            \* position of that entry in the repair

\* The first revision of the script (replaySession with forEach callbacks
\* that nobody awaits), run by its own main().
VARIABLES
  r1Pc,               \* position of the synchronous part of replaySession
  r1Log,              \* the records of recordings.jsonl
  r1Idx,              \* index of the forEach in progress
  r1Events,           \* content of events.jsonl
  r1SessionIds,       \* Map original session id -> new session id
  r1Callbacks,        \* position of the callback of each record
  r1EventTasks,       \* position of the callback of each map entry
  r1Responses,        \* responses pushed to recordingResponses
  r1Result,           \* what replaySession returned to its caller
  r1InFlight          \* batch POSTs issued and not yet answered

\* The capture proxy (express application on port 3001) and the two files
\* of the capture log.
VARIABLES
  received,           \* the POST requests handled so far, in order
  recordingsLog,      \* the lines of data/recordings.jsonl
  eventsLog,          \* the lines of data/events.jsonl
  upstream,           \* the requests forwarded by proxyRequest
  replayRead          \* what the replayer last read from the two files

\* The objects that modifyAndRecompress and loadAndModifyEvents of the
\* latest revision work on, for a caller that hands the same loaded record
\* to modifyAndRecompress more than once.
VARIABLES
  copyLog,            \* the record of the recordings log, as in the file
  copyFile,           \* the event of the events file, as in the file
  objects,            \* the chunk objects in memory; 1 is the loaded record
  eventObjects,       \* the event objects in memory
  copySessionIds,     \* Map original session id -> new session id
  copyWindowIds,      \* Map original window id -> new window id
  copyUuid,           \* number of crypto.randomUUID() calls so far
  copyClock,          \* the wall clock
  copyOutputs,        \* the chunks returned by each modifyAndRecompress
  copyBatches,        \* the events pushed by each loadAndModifyEvents
  copyPc              \* position of the caller

\* The second revision of the script: every event of a session is posted
\* on its own to /e/.
VARIABLES
  s2Pc,               \* position of the synchronous part of replaySession
  s2File,             \* the entries of data/events.jsonl
  s2Calls,            \* the forEach callback of each record of the log
  s2Wire              \* the event POSTs written so far, in order

\* The request handlers of the two capture proxies, each followed through
\* its awaits, several of them in progress at once.
VARIABLES
  dataDir,            \* the directory data/ exists
  handlers,           \* the handler of each POST, in order of receipt
  files,              \* the lines of the log files, each with its request
  forwards            \* the requests given to proxyRequest, in order

\* The loop of run() over the days of the date range, with the user
\* population kept as two counts.
VARIABLES
  genPc,              \* position in run()
  genConfig,          \* the values read from generation-config.json
  day,                \* days of the range that are over
  activeUsers,        \* users with churned = false
  churnedUsers,       \* users with churned = true
  dau,                \* the daily-active target carried to the next day
  dauLimit,           \* the target of the day in progress
  dailyUserCount,     \* the counter of the while loop
  draws               \* parity of the number of draws made so far

driverVars == <<phase, answer, replaysDone>>

callVars ==
  <<modeArg, pc, dryRun, config, eventsFile, numRecordings, recIdx,
    recording, chunks, identifiers, newSessionIds, newWindowIds, entryIdx,
    batchData, recordingResponses, failure, recPosts, batchPosts,
    dispatchLog>>

netVars == <<inFlight, dataSent, batchFailed>>

replayVars == <<driverVars, callVars, netVars, uuidCtr>>

timeVars == <<timeInput, timeChunk, timeBatch, timePc>>

codecVars == <<codecSnapshot, codecLogged, codecWarned, codecPc>>

repairVars == <<repairSnapshot, repairPc>>

contentVars == <<timeVars, codecVars, repairVars>>

rev1Vars ==
  <<r1Pc, r1Log, r1Idx, r1Events, r1SessionIds, r1Callbacks, r1EventTasks,
    r1Responses, r1Result, r1InFlight>>

captureVars == <<received, recordingsLog, eventsLog, upstream, replayRead>>

copyVars ==
  <<copyLog, copyFile, objects, eventObjects, copySessionIds, copyWindowIds,
    copyUuid, copyClock, copyOutputs, copyBatches, copyPc>>

singleVars == <<s2Pc, s2File, s2Calls, s2Wire>>

handlerVars == <<dataDir, handlers, files, forwards>>

genVars ==
  <<genPc, genConfig, day, activeUsers, churnedUsers, dau, dauLimit,
    dailyUserCount, draws>>

laterVars == <<copyVars, singleVars, handlerVars, genVars>>

otherVars == <<contentVars, rev1Vars, captureVars, laterVars>>

\* What the steps of one specification leave alone.
notTimeVars ==
  <<replayVars, codecVars, repairVars, rev1Vars, captureVars, laterVars>>

notCodecVars ==
  <<replayVars, timeVars, repairVars, rev1Vars, captureVars, laterVars>>

notRepairVars ==
  <<replayVars, timeVars, codecVars, rev1Vars, captureVars, laterVars>>

notRev1Vars == <<replayVars, contentVars, captureVars, laterVars>>

notCaptureVars == <<replayVars, contentVars, rev1Vars, laterVars>>

vars == <<replayVars, otherVars>>

NoConfig ==
  [sessionId |-> Undefined, userId |-> Undefined, anonId |-> Undefined,
   targetHost |-> Undefined]

NoIdentifiers ==
  [newSessionId |-> Undefined, newWindowId |-> Undefined,
   originalUserId |-> Undefined, originalSessionId |-> Undefined]

\* No call of the latest revision is in progress or has been made.
ReplayIdle ==
  /\ answer = ""
  /\ replaysDone = 0
  /\ modeArg = Undefined
  /\ pc = "idle"
  /\ dryRun = TRUE
  /\ config = NoConfig
  /\ eventsFile = EventsFile(FALSE, <<>>)
  /\ numRecordings = 0
  /\ recIdx = 0
  /\ recording = Recording(FALSE, <<>>)
  /\ chunks = <<>>
  /\ identifiers = NoIdentifiers
  /\ newSessionIds = <<>>
  /\ newWindowIds = <<>>
  /\ entryIdx = 0
  /\ batchData = NullBatch
  /\ recordingResponses = <<>>
  /\ failure = "none"
  /\ uuidCtr = 0
  /\ recPosts = 0
  /\ batchPosts = 0
  /\ inFlight = 0
  /\ dispatchLog = <<>>
  /\ dataSent = FALSE
  /\ batchFailed = FALSE

\* The replay process before its first call.
ReplayInit ==
  /\ phase \in {"dryRun", "direct"}
  /\ ReplayIdle

\* No chunk content is being followed.
TimeIdle ==
  /\ timeInput = [configTimestamp |-> 0, chunkTimestamp |-> 0,
                  snapshots |-> <<>>, events |-> <<>>]
  /\ timeChunk = [timestamp |-> 0, snapshots |-> <<>>]
  /\ timeBatch = <<>>
  /\ timePc = "off"

CodecIdle ==
  /\ codecSnapshot = [type |-> 0, data |-> <<>>, flagged |-> FALSE,
                      error |-> FALSE]
  /\ codecLogged = codecSnapshot
  /\ codecWarned = FALSE
  /\ codecPc = "off"

RepairIdle ==
  /\ repairSnapshot = [type |-> 0, kind |-> "tree", valid |-> FALSE,
                       node |-> [isNull |-> TRUE, type |-> 0,
                                 attributes |-> Undefined,
                                 childNodes |-> <<>>]]
  /\ repairPc = "off"

ContentIdle == TimeIdle /\ CodecIdle /\ RepairIdle

\* The first revision is not running.
Rev1Idle ==
  /\ r1Pc = "off"
  /\ r1Log = <<>>
  /\ r1Idx = 0
  /\ r1Events = EventsFile(FALSE, <<>>)
  /\ r1SessionIds = <<>>
  /\ r1Callbacks = <<>>
  /\ r1EventTasks = <<>>
  /\ r1Responses = 0
  /\ r1Result = [returned |-> FALSE, success |-> FALSE, responses |-> 0]
  /\ r1InFlight = 0

\* No request was captured: both files of the capture log are empty.
CaptureIdle ==
  /\ received = <<>>
  /\ recordingsLog = <<>>
  /\ eventsLog = <<>>
  /\ upstream = <<>>
  /\ replayRead = [recordings |-> <<>>, events |-> <<>>]

\* No object is being followed through a copy.
CopyIdle ==
  /\ copyLog = <<>>
  /\ copyFile = <<>>
  /\ objects = <<>>
  /\ eventObjects = <<>>
  /\ copySessionIds = <<>>
  /\ copyWindowIds = <<>>
  /\ copyUuid = 0
  /\ copyClock = 0
  /\ copyOutputs = <<>>
  /\ copyBatches = <<>>
  /\ copyPc = "off"

\* The second revision is not running.
SingleIdle ==
  /\ s2Pc = "off"
  /\ s2File = <<>>
  /\ s2Calls = <<>>
  /\ s2Wire = <<>>

NoFiles == [recordings |-> <<>>, events |-> <<>>, proxyEvents |-> <<>>]

\* No capture handler is being followed.
HandlersIdle ==
  /\ dataDir = FALSE
  /\ handlers = <<>>
  /\ files = NoFiles
  /\ forwards = <<>>

NoGenConfig ==
  [startingUserCount |-> 0, dauPercent |-> 0, growthPermille |-> 0,
   churn |-> "never", startWeekday |-> 0]

\* run() is not being followed.
GenIdle ==
  /\ genPc = "off"
  /\ genConfig = NoGenConfig
  /\ day = 0
  /\ activeUsers = 0
  /\ churnedUsers = 0
  /\ dau = 0
  /\ dauLimit = 0
  /\ dailyUserCount = 0
  /\ draws = 0

LaterIdle == CopyIdle /\ SingleIdle /\ HandlersIdle /\ GenIdle

Init == ReplayInit /\ ContentIdle /\ Rev1Idle /\ CaptureIdle /\ LaterIdle

\* No instance exists: the variables of a call hold their initial values.
NoCall ==
  /\ modeArg' = Undefined
  /\ dryRun' = TRUE
  /\ config' = NoConfig
  /\ eventsFile' = EventsFile(FALSE, <<>>)
  /\ numRecordings' = 0
  /\ recIdx' = 0
  /\ recording' = Recording(FALSE, <<>>)
  /\ chunks' = <<>>
  /\ identifiers' = NoIdentifiers
  /\ newSessionIds' = <<>>
  /\ newWindowIds' = <<>>
  /\ entryIdx' = 0
  /\ batchData' = NullBatch
  /\ recordingResponses' = <<>>
  /\ failure' = "none"
  /\ recPosts' = 0
  /\ batchPosts' = 0
  /\ dispatchLog' = <<>>

\* The variables of the loop body of replaySession go out of scope.
LeaveLoopBody ==
  /\ recording' = Recording(FALSE, <<>>)
  /\ chunks' = <<>>
  /\ identifiers' = NoIdentifiers
  /\ entryIdx' = 0
  /\ batchData' = NullBatch
  /\ dispatchLog' = <<>>

\* The process is alive: no unhandled rejection has terminated it.
Alive == phase # "crashed"

\* ----------------------------------------------------------- the driver
\* The state of a fresh PostHogSessionReplay instance whose replaySession
\* has just been called with option `mode`.
StartCall(mode, userId, host) ==
  /\ uuidCtr + 2 + MaxRecordings <= Len(UuidPool)
  /\ modeArg' = mode
  /\ dryRun' = DryRunParam(mode)
  /\ config' = [sessionId |-> randomUUID(uuidCtr), userId |-> userId,
                anonId |-> randomUUID(uuidCtr + 1),
                targetHost |-> TargetHost(host)]
  /\ uuidCtr' = uuidCtr + 2
  /\ eventsFile' \in EventsFileInputs
  /\ pc' = "readLog"
  /\ UNCHANGED <<numRecordings, recIdx, recording, chunks, identifiers,
                 newSessionIds, newWindowIds, entryIdx, batchData,
                 recordingResponses, failure, recPosts, batchPosts,
                 dispatchLog>>

\* main.js replaySession(recordingId, userId, sessionId, timestamp, dryRun),
\* called from the loop of run({ dryRun }).
DriverReplaySession ==
  /\ Alive
  /\ phase \in {"dryRun", "liveRun"}
  /\ pc = "idle"
  /\ replaysDone < MaxReplays
  /\ \E u \in Users :
       StartCall(IF phase = "dryRun" THEN "true" ELSE "false", u, Undefined)
  /\ UNCHANGED <<driverVars, netVars>>
  /\ UNCHANGED otherVars

\* A caller of the exported class calls replaySession() with no options.
DirectReplaySession ==
  /\ Alive
  /\ phase = "direct"
  /\ pc = "idle"
  /\ replaysDone = 0
  /\ \E u \in Users : StartCall(Undefined, u, Undefined)
  /\ UNCHANGED <<driverVars, netVars>>
  /\ UNCHANGED otherVars

\* await replaySession.replaySession({ dryRun }) returns to its caller.
ReplayReturns ==
  /\ Alive
  /\ pc = "resolved"
  /\ pc' = "idle"
  /\ NoCall
  /\ replaysDone' = replaysDone + 1
  /\ phase' = IF phase = "direct" THEN "directDone" ELSE phase
  /\ UNCHANGED <<answer, netVars, uuidCtr>>
  /\ UNCHANGED otherVars

\* replaySession rethrows; no caller up to cliEntry() catches: the process
\* ends with an unhandled rejection.
ReplayThrows ==
  /\ Alive
  /\ pc = "rejected"
  /\ phase' = "crashed"
  /\ pc' = "idle"
  /\ NoCall
  /\ inFlight' = 0
  /\ UNCHANGED <<answer, replaysDone, dataSent, batchFailed, uuidCtr>>
  /\ UNCHANGED otherVars

\* The loop of run() ends.
RunReturns ==
  /\ Alive
  /\ phase \in {"dryRun", "liveRun"}
  /\ pc = "idle"
  /\ phase' = IF phase = "dryRun" THEN "ask" ELSE "finished"
  /\ replaysDone' = 0
  /\ UNCHANGED <<answer, callVars, netVars, uuidCtr>>
  /\ UNCHANGED otherVars

\* cliEntry: the confirmation prompt is answered.
AskQuestion ==
  /\ Alive
  /\ phase = "ask"
  /\ \E a \in Answers :
       /\ answer' = a
       /\ phase' = IF Confirmed(a) THEN "liveRun" ELSE "cancelled"
  /\ UNCHANGED <<replaysDone, callVars, netVars, uuidCtr>>
  /\ UNCHANGED otherVars

\* ------------------------------------------------------- replaySession
\* fs.readFile of the recordings log fails: the catch block rethrows.
ReadRecordingsFails ==
  /\ Alive
  /\ pc = "readLog"
  /\ pc' = CatchOutcome("ENOENT")
  /\ failure' = "ENOENT"
  /\ UNCHANGED <<driverVars, modeArg, dryRun, config, eventsFile,
                 numRecordings, recIdx, recording, chunks, identifiers,
                 newSessionIds, newWindowIds, entryIdx, batchData,
                 recordingResponses, recPosts, batchPosts, dispatchLog,
                 netVars, uuidCtr>>
  /\ UNCHANGED otherVars

\* The recordings log is read and split into records; an empty log makes
\* replaySession return at once.
ReadRecordings ==
  /\ Alive
  /\ pc = "readLog"
  /\ \E n \in 0..MaxRecordings :
       /\ numRecordings' = n
       /\ recIdx' = IF n = 0 THEN 0 ELSE 1
       /\ pc' = IF n = 0 THEN "resolved" ELSE "transform"
  /\ UNCHANGED <<driverVars, modeArg, dryRun, config, eventsFile, recording,
                 chunks, identifiers, newSessionIds, newWindowIds, entryIdx,
                 batchData, recordingResponses, failure, recPosts, batchPosts,
                 dispatchLog, netVars, uuidCtr>>
  /\ UNCHANGED otherVars

\* modifyAndRecompress(recording, newSessionIds, newWindowIds) of the next
\* record of the log.  It has no await: it runs to its end in one step.
ModifyAndRecompress ==
  /\ Alive
  /\ pc = "transform"
  /\ \E rec \in RecordingInputs :
       IF ~HasDecompressedArray(rec)
          THEN /\ pc' = "rejected"
               /\ failure' = "noDecompressed"
               /\ recording' = Recording(FALSE, <<>>)
               /\ UNCHANGED <<chunks, identifiers, newSessionIds,
                              newWindowIds, entryIdx, dispatchLog, uuidCtr>>
          ELSE LET originalSessionId == FirstField(rec, "session_id")
                   originalWindowId == FirstField(rec, "window_id")
                   sessionMap == GetOrCreate(newSessionIds, originalSessionId,
                                             config.sessionId)
                   windowMap == GetOrCreate(newWindowIds, originalWindowId,
                                            randomUUID(uuidCtr))
                   newSessionId == MapGet(sessionMap, originalSessionId)
                   newWindowId == MapGet(windowMap, originalWindowId)
               IN /\ recording' = rec
                  /\ newSessionIds' = sessionMap
                  /\ newWindowIds' = windowMap
                  /\ uuidCtr' = IF MapHas(newWindowIds, originalWindowId)
                                THEN uuidCtr
                                ELSE uuidCtr + 1
                  /\ chunks' = ModifyChunks(rec.decompressed, newSessionId,
                                            newWindowId, config)
                  /\ identifiers' =
                       [newSessionId |-> newSessionId,
                        newWindowId |-> newWindowId,
                        originalUserId |-> FirstField(rec, "distinct_id"),
                        originalSessionId |-> originalSessionId]
                  /\ entryIdx' = 1
                  /\ dispatchLog' = <<>>
                  /\ pc' = "events"
                  /\ failure' = failure
  /\ batchData' = NullBatch
  /\ UNCHANGED <<driverVars, modeArg, dryRun, config, eventsFile,
                 numRecordings, recIdx, recordingResponses, recPosts,
                 batchPosts, netVars>>
  /\ UNCHANGED otherVars

\* One turn of for await (const [originalSessionId, newSessionId] of
\* newSessionIds.entries()): loadAndModifyEvents for the entry.
LoadAndModifyEvents ==
  /\ Alive
  /\ pc = "events"
  /\ entryIdx <= Len(newSessionIds)
  /\ eventsFile.exists \/ EventsReadOutcome("ENOENT") = "null"
  /\ LET entry == newSessionIds[entryIdx]
         result == LoadAndModifyEventsResult(eventsFile, entry[1], entry[2],
                                             config)
     IN /\ batchData' = result
        /\ pc' = IF result.isNull THEN "events" ELSE "sendBatch"
        /\ entryIdx' = IF result.isNull THEN entryIdx + 1 ELSE entryIdx
  /\ UNCHANGED <<driverVars, modeArg, dryRun, config, eventsFile,
                 numRecordings, recIdx, recording, chunks, identifiers,
                 newSessionIds, newWindowIds, recordingResponses, failure,
                 recPosts, batchPosts, dispatchLog, netVars, uuidCtr>>
  /\ UNCHANGED otherVars

\* loadAndModifyEvents throws: fs.readFile of the events file fails and
\* the catch block throws the error again (a file that exists cannot be
\* read: EACCES), and the catch block of replaySession rethrows.
LoadAndModifyEventsFails ==
  /\ Alive
  /\ pc = "events"
  /\ entryIdx <= Len(newSessionIds)
  /\ LET code == IF eventsFile.exists THEN "EACCES" ELSE "ENOENT"
     IN /\ EventsReadOutcome(code) = "rethrown"
        /\ pc' = CatchOutcome(code)
        /\ failure' = IF code = "ENOENT" THEN "eventsENOENT"
                                         ELSE "eventsEACCES"
  /\ LeaveLoopBody
  /\ UNCHANGED <<driverVars, modeArg, dryRun, config, eventsFile,
                 numRecordings, recIdx, newSessionIds, newWindowIds,
                 recordingResponses, recPosts, batchPosts, netVars, uuidCtr>>
  /\ UNCHANGED otherVars

\* sendEventsToPostHog({ batchData, dryRun }): in a live call the batch is
\* handed to fetch in an async function that nobody awaits.
SendEventsToPostHog ==
  /\ Alive
  /\ pc = "sendBatch"
  /\ IF dryRun
     THEN UNCHANGED <<batchPosts, dispatchLog, netVars>>
     ELSE /\ batchPosts' = batchPosts + 1
          /\ inFlight' = inFlight + 1
          /\ dispatchLog' = Append(dispatchLog, "batch")
          /\ dataSent' = TRUE
          /\ UNCHANGED batchFailed
  /\ entryIdx' = entryIdx + 1
  /\ pc' = "events"
  /\ UNCHANGED <<driverVars, modeArg, dryRun, config, eventsFile,
                 numRecordings, recIdx, recording, chunks, identifiers,
                 newSessionIds, newWindowIds, batchData, recordingResponses,
                 failure, recPosts, uuidCtr>>
  /\ UNCHANGED otherVars

\* The end of the body of for await (const recording of recordings).
NextRecording ==
  /\ recIdx' = IF recIdx < numRecordings THEN recIdx + 1 ELSE recIdx
  /\ pc' = IF recIdx < numRecordings THEN "transform" ELSE "resolved"
  /\ LeaveLoopBody

\* sendToPostHog({ compressedData, dryRun }) after the events of every
\* entry: a dry run returns undefined, a live run writes the request.
SendToPostHog ==
  /\ Alive
  /\ pc = "events"
  /\ entryIdx > Len(newSessionIds)
  /\ IF dryRun
     THEN /\ recordingResponses' =
               Append(recordingResponses, Response(FALSE, 0))
          /\ NextRecording
          /\ UNCHANGED <<recPosts, netVars>>
     ELSE /\ recPosts' = recPosts + 1
          /\ dispatchLog' = Append(dispatchLog, "recording")
          /\ dataSent' = TRUE
          /\ pc' = "awaitPost"
          /\ UNCHANGED <<recIdx, recording, chunks, identifiers, entryIdx,
                         batchData, recordingResponses, inFlight,
                         batchFailed>>
  /\ UNCHANGED <<driverVars, modeArg, dryRun, config, eventsFile,
                 numRecordings, newSessionIds, newWindowIds, failure,
                 batchPosts, uuidCtr>>
  /\ UNCHANGED otherVars

\* The response to the recording POST ends: resolve on 2xx, else reject.
RecordingResponse ==
  /\ Alive
  /\ pc = "awaitPost"
  /\ \E status \in HttpStatuses :
       IF Is2xx(status)
       THEN /\ recordingResponses' =
                 Append(recordingResponses, Response(TRUE, status))
            /\ NextRecording
            /\ UNCHANGED failure
       ELSE /\ pc' = "rejected"
            /\ failure' = "HTTP"
            /\ LeaveLoopBody
            /\ UNCHANGED <<recIdx, recordingResponses>>
  /\ UNCHANGED <<driverVars, modeArg, dryRun, config, eventsFile,
                 numRecordings, newSessionIds, newWindowIds, recPosts,
                 batchPosts, netVars, uuidCtr>>
  /\ UNCHANGED otherVars

\* req.on("error", reject): the recording POST fails on the network.
RecordingRequestError ==
  /\ Alive
  /\ pc = "awaitPost"
  /\ pc' = "rejected"
  /\ failure' = "network"
  /\ LeaveLoopBody
  /\ UNCHANGED <<driverVars, modeArg, dryRun, config, eventsFile,
                 numRecordings, recIdx, newSessionIds, newWindowIds,
                 recordingResponses, recPosts, batchPosts, netVars, uuidCtr>>
  /\ UNCHANGED otherVars

\* The unawaited fetch of a batch POST gets its response (any status): the
\* status is logged and nothing else happens.
BatchResponse ==
  /\ Alive
  /\ inFlight > 0
  /\ inFlight' = inFlight - 1
  /\ \E status \in HttpStatuses :
       batchFailed' = (batchFailed \/ ~Is2xx(status))
  /\ UNCHANGED <<driverVars, callVars, dataSent, uuidCtr>>
  /\ UNCHANGED otherVars

\* The unawaited fetch rejects (network error): nothing handles the
\* rejection of the async function, which ends the process.
BatchRequestError ==
  /\ Alive
  /\ inFlight > 0
  /\ phase' = "crashed"
  /\ pc' = "idle"
  /\ NoCall
  /\ inFlight' = 0
  /\ UNCHANGED <<answer, replaysDone, dataSent, batchFailed, uuidCtr>>
  /\ UNCHANGED otherVars

Next ==
  \/ DriverReplaySession
  \/ DirectReplaySession
  \/ ReplayReturns
  \/ ReplayThrows
  \/ RunReturns
  \/ AskQuestion
  \/ ReadRecordingsFails
  \/ ReadRecordings
  \/ ModifyAndRecompress
  \/ LoadAndModifyEvents
  \/ LoadAndModifyEventsFails
  \/ SendEventsToPostHog
  \/ SendToPostHog
  \/ RecordingResponse
  \/ RecordingRequestError
  \/ BatchResponse
  \/ BatchRequestError

Spec == Init /\ [][Next]_vars

\* ------------------------------------------------------------ properties
\* The loop body of replaySession holds a transformed record.
Transformed == pc \in {"events", "sendBatch", "awaitPost"}

Range(q) == {q[i] : i \in 1..Len(q)}

\* Every entry of map m is an entry of map n.
MapPreserved(m, n) ==
  \A k \in MapKeys(m) : MapHas(n, k) /\ MapGet(n, k) = MapGet(m, k)

\* The source events that loadAndModifyEvents selected for the map entry
\* under iteration.
MatchingEvents ==
  SelectSeq(eventsFile.events,
            LAMBDA e : MatchesSession(e, newSessionIds[entryIdx][1]))

C2_EveryChunkMappedByOwnId ==
  (Transformed /\ FirstField(recording, "session_id") # Undefined) =>
    \A j \in 1..Len(chunks) :
      recording.decompressed[j].properties =>
        /\ MapHas(newSessionIds, recording.decompressed[j].session_id)
        /\ chunks[j].session_id =
             MapGet(newSessionIds, recording.decompressed[j].session_id)
        /\ MapHas(newWindowIds, recording.decompressed[j].window_id)
        /\ chunks[j].window_id =
             MapGet(newWindowIds, recording.decompressed[j].window_id)

\* C3: the identity mapping is one-to-one: no two original session ids
\* share a new session id and no two original window ids share a new
\* window id.
C3_MappingInjective ==
  /\ \A k, l \in MapKeys(newSessionIds) \cap SessionIds :
       MapGet(newSessionIds, k) = MapGet(newSessionIds, l) => k = l
  /\ \A k, l \in MapKeys(newWindowIds) \cap WindowIds :
       MapGet(newWindowIds, k) = MapGet(newWindowIds, l) => k = l

\* The events log of the scenario: exactly two events, both of session "A",
\* in a file that the call can read.
ScenarioEvents ==
  /\ eventsFile.exists
  /\ failure # "eventsEACCES"
  /\ Len(eventsFile.events) = 2
  /\ \A e \in Range(eventsFile.events) : e.session_id = "A"

\* C4: in a live call over a log of one recording of session "A" with three
\* chunks and an events log of two events of session "A", the three chunks
\* and the two batch events all carry the target session id, and exactly
\* one recording POST and exactly one batch POST are issued.
C4_ScenarioOneSession ==
  (numRecordings = 1 /\ ScenarioEvents /\ ~dryRun) =>
    /\ (Transformed /\ recording \in ScenarioRecordings) =>
         /\ \A c \in Range(chunks) : c.session_id = config.sessionId
         /\ recPosts <= 1 /\ batchPosts <= 1
         /\ (pc = "awaitPost") =>
              /\ recPosts = 1 /\ batchPosts = 1
              /\ Len(chunks) = 3
              /\ ~batchData.isNull /\ Len(batchData.batch) = 2
              /\ \A e \in Range(batchData.batch) :
                   e.session_id = config.sessionId
    /\ (pc \in {"resolved", "rejected"} /\ MapKeys(newSessionIds) = {"A"}) =>
         recPosts = 1 /\ batchPosts = 1

\* C4 witness: the scenario's recording POST is in flight after its batch.
C4_Witness ==
  /\ numRecordings = 1 /\ ScenarioEvents /\ ~dryRun
  /\ recording \in ScenarioRecordings
  /\ pc = "awaitPost"
  /\ dispatchLog = <<"batch", "recording">>

\* The response to the recording POST of the record in the loop body has
\* been received.
SnapshotAnswered == Len(recordingResponses) >= recIdx

\* C5: per record the snapshot stream is dispatched and answered before
\* the correlated events are dispatched: a batch POST of a record is
\* preceded by that record's recording POST and its response.
C5_SnapshotBeforeEvents ==
  \A i \in 1..Len(dispatchLog) :
    dispatchLog[i] = "batch" =>
      /\ \E j \in 1..(i - 1) : dispatchLog[j] = "recording"
      /\ SnapshotAnswered

\* C6: a non-2xx response to a recording POST does not end the call while
\* records of the log remain to be transformed and dispatched.
C6_FailureDoesNotAbort ==
  ~(pc = "rejected" /\ failure = "HTTP" /\ recIdx < numRecordings)

\* C7: a call without a mode is a dry run; a dry run issues no request to
\* either endpoint, yet transforms every record (ids, user, events of the
\* batch) exactly as a live call does and answers every record with an
\* undefined response.
C7_DryRunTransformsAndSendsNothing ==
  /\ (pc # "idle" /\ modeArg = Undefined) => dryRun
  /\ (pc # "idle" /\ dryRun) =>
       /\ recPosts = 0 /\ batchPosts = 0
       /\ pc # "awaitPost" /\ dispatchLog = <<>>
       /\ Transformed =>
            /\ Len(chunks) = Len(recording.decompressed)
            /\ \A j \in 1..Len(chunks) :
                 recording.decompressed[j].properties =>
                   /\ chunks[j].session_id = config.sessionId
                   /\ chunks[j].window_id \in MapValues(newWindowIds)
                   /\ chunks[j].distinct_id \in {config.userId, config.anonId}
       /\ (pc = "sendBatch") =>
            /\ Len(batchData.batch) = Len(MatchingEvents)
            /\ \A e \in Range(batchData.batch) :
                 e.session_id = config.sessionId
       /\ (pc = "resolved") =>
            /\ Len(recordingResponses) = numRecordings
            /\ \A r \in Range(recordingResponses) : ~r.defined

\* C7 witness: a call without a mode skips the batch of its second record.
C7_Witness ==
  /\ modeArg = Undefined
  /\ dryRun
  /\ pc = "sendBatch"
  /\ recIdx = 2
  /\ Len(chunks) > 0

\* C8: under cliEntry nothing is sent before the dry run has returned and
\* the prompt was answered "Y": the prompt follows the return of the dry
\* run, the live run follows the answer "Y", and with any other answer no
\* request is ever written.
C8_LiveRunNeedsDryRunAndY ==
  /\ [](/\ dataSent => (phase \in {"liveRun", "finished", "crashed"}
                         /\ answer = "Y")
        /\ (phase = "liveRun") => answer = "Y"
        /\ (pc # "idle" /\ ~dryRun) => phase = "liveRun")
  /\ [][ /\ (phase' = "ask" /\ phase # "ask") =>
              (phase = "dryRun" /\ pc = "idle")
         /\ (phase' = "liveRun" /\ phase # "liveRun") =>
              (phase = "ask" /\ answer' = "Y")
         /\ (phase' = "cancelled") => ~dataSent'
     ]_vars

\* C8 witness: the live run has written a request.
C8_Witness ==
  /\ phase = "liveRun"
  /\ answer = "Y"
  /\ dataSent
  /\ pc = "awaitPost"

MaxSnapshots == 2       \* entries of $snapshot_data of one chunk
MaxTimedEvents == 2     \* application events of the session

\* Capture times (ms since the epoch) and the timestamp given to the call.
SourceInstants == {100000000, 100000500}
ConfigTimestamps == {300000000}

\* Date.prototype.toISOString: the text of an instant, exact to the ms.
ToISOString(ms) == <<"iso", ms>>

\* new Date(text).getTime()
ISOTime(text) == text[2]

\* snapshot.timestamp = snapshot.timestamp - 86400000
ShiftSnapshot(t) == t - 86400000

\* The timestamps of a chunk after chunks.forEach: every entry of
\* $snapshot_data is shifted; chunk.timestamp is not assigned.
ShiftChunkTimestamps(chunk) ==
  [chunk EXCEPT
     !.snapshots = [j \in 1..Len(@) |-> ShiftSnapshot(@[j])]]

\* const batchTimestamp = new Date(this.config.timestamp).toISOString()
BatchTimestamp(configTimestamp) == ToISOString(configTimestamp)

\* modified.timestamp = batchTimestamp, for every matching event.
StampEvents(events, configTimestamp) ==
  [j \in 1..Len(events) |-> BatchTimestamp(configTimestamp)]

TimeInputs ==
  [configTimestamp : ConfigTimestamps,
   chunkTimestamp : SourceInstants,
   snapshots : SeqsUpTo(SourceInstants, MaxSnapshots),
   events : SeqsUpTo({ToISOString(t) : t \in SourceInstants},
                     MaxTimedEvents)]

TimeInit ==
  /\ ReplayInit
  /\ phase = "direct"
  /\ timeInput \in TimeInputs
  /\ timeChunk = [timestamp |-> timeInput.chunkTimestamp,
                  snapshots |-> timeInput.snapshots]
  /\ timeBatch = <<>>
  /\ timePc = "source"
  /\ CodecIdle
  /\ RepairIdle
  /\ Rev1Idle
  /\ CaptureIdle
  /\ LaterIdle

\* modifyAndRecompress rewrites the chunk.
TimeModifyAndRecompress ==
  /\ timePc = "source"
  /\ timeChunk' = ShiftChunkTimestamps(timeChunk)
  /\ timePc' = "chunk"
  /\ UNCHANGED <<notTimeVars, timeInput, timeBatch>>

\* loadAndModifyEvents rewrites the events of the session.
TimeLoadAndModifyEvents ==
  /\ timePc = "chunk"
  /\ timeBatch' = StampEvents(timeInput.events, timeInput.configTimestamp)
  /\ timePc' = "batch"
  /\ UNCHANGED <<notTimeVars, timeInput, timeChunk>>

TimeNext ==
  \/ TimeModifyAndRecompress
  \/ TimeLoadAndModifyEvents

TimeSpec == TimeInit /\ [][TimeNext]_vars

\* The source times of the session's events: the snapshot events of the
\* chunk, then the application events; and their times in the output.
SessionSourceTimes ==
  timeInput.snapshots
    \o [j \in 1..Len(timeInput.events) |-> ISOTime(timeInput.events[j])]

SessionOutputTimes ==
  timeChunk.snapshots
    \o [j \in 1..Len(timeBatch) |-> ISOTime(timeBatch[j])]

\* C12: once the record and the events of its session are rewritten, any
\* two events of the session (snapshot events or application events) with
\* source times t1 < t2 are as far apart in the output as in the source.
C12_DeltasPreserved ==
  (timePc = "batch") =>
    \A i, j \in 1..Len(SessionSourceTimes) :
      SessionSourceTimes[i] < SessionSourceTimes[j] =>
        SessionOutputTimes[j] - SessionOutputTimes[i] =
          SessionSourceTimes[j] - SessionSourceTimes[i]

\* Every timestamp of the call's input, top-level ones first (the chunk's,
\* the application events'), then the nested ones of $snapshot_data; and
\* the same timestamps in the output.
AllSourceTimes ==
  <<timeInput.chunkTimestamp>>
    \o [j \in 1..Len(timeBatch) |-> ISOTime(timeInput.events[j])]
    \o timeInput.snapshots

AllOutputTimes ==
  <<timeChunk.timestamp>>
    \o [j \in 1..Len(timeBatch) |-> ISOTime(timeBatch[j])]
    \o timeChunk.snapshots

\* C13: one delta is applied to every timestamp of the call: every
\* rewritten top-level timestamp and every rewritten nested snapshot
\* timestamp differs from its source by the same amount, so timestamps that
\* are equal in the source are equal in the output.
C13_SingleDelta ==
  (timePc \in {"chunk", "batch"}) =>
    \A i, j \in 1..Len(AllSourceTimes) :
      /\ AllOutputTimes[i] - AllSourceTimes[i] =
           AllOutputTimes[j] - AllSourceTimes[j]
      /\ (AllSourceTimes[i] = AllSourceTimes[j]) =>
           (AllOutputTimes[i] = AllOutputTimes[j])

\* ---------------------------------------------------------- nested blobs
\* A Buffer is a sequence of bytes (0..255); a JS string is the sequence of
\* its UTF-16 code units.
MaxUnits == 3           \* encoded characters (or fragments) of one content

RECURSIVE Flatten(_)
Flatten(q) == IF q = <<>> THEN <<>> ELSE Head(q) \o Flatten(Tail(q))

IsHighSurrogate(u) == u >= 55296 /\ u <= 56319      \* D800..DBFF

IsLowSurrogate(u) == u >= 56320 /\ u <= 57343       \* DC00..DFFF

IsContinuation(b) == b >= 128 /\ b <= 191           \* 80..BF

\* The UTF-8 bytes of code point cp.
EncodeCodePoint(cp) ==
  IF cp < 128 THEN <<cp>>
  ELSE IF cp < 2048 THEN <<192 + (cp \div 64), 128 + (cp % 64)>>
  ELSE IF cp < 65536
       THEN <<224 + (cp \div 4096), 128 + ((cp \div 64) % 64),
              128 + (cp % 64)>>
       ELSE <<240 + (cp \div 262144), 128 + ((cp \div 4096) % 64),
              128 + ((cp \div 64) % 64), 128 + (cp % 64)>>

\* The bytes contributed by the code unit at position i of str: a surrogate
\* pair is one code point, a lone surrogate becomes U+FFFD.
EncodeUnit(str, i) ==
  LET u == str[i]
  IN IF IsHighSurrogate(u)
     THEN IF i < Len(str) /\ IsLowSurrogate(str[i + 1])
          THEN EncodeCodePoint(65536 + (u - 55296) * 1024
                                 + (str[i + 1] - 56320))
          ELSE EncodeCodePoint(65533)
     ELSE IF IsLowSurrogate(u)
          THEN IF i > 1 /\ IsHighSurrogate(str[i - 1])
               THEN <<>>
               ELSE EncodeCodePoint(65533)
          ELSE EncodeCodePoint(u)

\* Mutant of Utf8Encode: the string is encoded as latin1.
Utf8EncodeAsLatin1(str) == [i \in 1..Len(str) |-> str[i] % 256]

\* Buffer.from(str, "utf8")
Utf8Encode(str) == Flatten([i \in 1..Len(str) |-> EncodeUnit(str, i)])

\* The code units of code point cp.
CodeUnits(cp) ==
  IF cp < 65536 THEN <<cp>>
  ELSE <<55296 + ((cp - 65536) \div 1024), 56320 + ((cp - 65536) % 1024)>>

\* What the decoder reads at position i of bytes: the number of bytes it
\* consumes and the code units it emits.  An ill-formed sequence yields
\* U+FFFD for its maximal well-formed prefix (at least one byte).
DecodeAt(bytes, i) ==
  LET n == Len(bytes)
      b1 == bytes[i]
      Has(k) == i + k <= n
      B(k) == bytes[i + k]
      lo2 == IF b1 = 224 THEN 160 ELSE IF b1 = 240 THEN 144 ELSE 128
      hi2 == IF b1 = 237 THEN 159 ELSE IF b1 = 244 THEN 143 ELSE 191
      ok2 == Has(1) /\ B(1) >= lo2 /\ B(1) <= hi2
      ok3 == ok2 /\ Has(2) /\ IsContinuation(B(2))
      ok4 == ok3 /\ Has(3) /\ IsContinuation(B(3))
      Bad(k) == [used |-> k, units |-> <<65533>>]
  IN IF b1 < 128 THEN [used |-> 1, units |-> <<b1>>]
     ELSE IF b1 >= 194 /\ b1 <= 223
          THEN IF Has(1) /\ IsContinuation(B(1))
               THEN [used |-> 2,
                     units |-> <<(b1 - 192) * 64 + (B(1) - 128)>>]
               ELSE Bad(1)
     ELSE IF b1 >= 224 /\ b1 <= 239
          THEN IF ok3
               THEN [used |-> 3,
                     units |-> <<(b1 - 224) * 4096 + (B(1) - 128) * 64
                                   + (B(2) - 128)>>]
               ELSE IF ok2 THEN Bad(2) ELSE Bad(1)
     ELSE IF b1 >= 240 /\ b1 <= 244
          THEN IF ok4
               THEN [used |-> 4,
                     units |-> CodeUnits((b1 - 240) * 262144
                                           + (B(1) - 128) * 4096
                                           + (B(2) - 128) * 64
                                           + (B(3) - 128))]
               ELSE IF ok3 THEN Bad(3) ELSE IF ok2 THEN Bad(2) ELSE Bad(1)
     ELSE Bad(1)

RECURSIVE Utf8DecodeFrom(_, _)
Utf8DecodeFrom(bytes, i) ==
  IF i > Len(bytes)
  THEN <<>>
  ELSE LET d == DecodeAt(bytes, i)
       IN d.units \o Utf8DecodeFrom(bytes, i + d.used)

\* buffer.toString("utf8")
Utf8Decode(bytes) == Utf8DecodeFrom(bytes, 1)

\* buffer.toString("latin1"): byte b becomes the code unit b.
BufferToLatin1(bytes) == [i \in 1..Len(bytes) |-> bytes[i]]

\* Buffer.from(str, "latin1"): code unit u becomes the byte u mod 256.
Latin1ToBuffer(str) == [i \in 1..Len(str) |-> str[i] % 256]

\* The gzip container: magic bytes 31 139, method 8, flags 0; the body; a
\* trailer holding the length of the body.  The body is a stored deflate
\* block; checksum and remaining header fields are not represented.
GzipHeader == <<31, 139, 8, 0>>

\* zlib.gzipSync(buffer)
Gzip(bytes) == GzipHeader \o bytes \o <<Len(bytes) % 256>>

\* zlib.gunzipSync(buffer): ok = FALSE when it throws.
Gunzip(bytes) ==
  LET n == Len(bytes)
  IN IF /\ n >= 5
        /\ SubSeq(bytes, 1, 4) = GzipHeader
        /\ bytes[n] = (n - 5) % 256
     THEN [ok |-> TRUE, bytes |-> SubSeq(bytes, 5, n - 1)]
     ELSE [ok |-> FALSE, bytes |-> <<>>]

\* An entry of $snapshot_data; flagged: _original_compressed is set;
\* error: _decompression_error is set.
Snapshot(t, d, f, e) == [type |-> t, data |-> d, flagged |-> f, error |-> e]

\* The test of capture for a compressed blob: gzip magic bytes.
LooksCompressed(str) == Len(str) > 2 /\ str[1] = 31 /\ str[2] = 139

\* The callback of $snapshot_data.map in decompressNestedSnapshots.
DecompressSnapshot(s) ==
  IF s.type = 2 /\ LooksCompressed(s.data)
  THEN LET r == Gunzip(Latin1ToBuffer(s.data))
       IN IF r.ok
          THEN [s EXCEPT !.data = Utf8Decode(r.bytes), !.flagged = TRUE]
          ELSE [s EXCEPT !.error = TRUE]
  ELSE s

\* The callback of $snapshot_data.forEach in recompressNestedSnapshots;
\* gzipOk = FALSE: the try block throws, the catch block warns.
RecompressSnapshot(s, gzipOk) ==
  IF s.type = 2 /\ s.flagged /\ gzipOk
  THEN [s EXCEPT !.data = BufferToLatin1(Gzip(Utf8Encode(s.data))),
                 !.flagged = FALSE]
  ELSE s

\* Contents of a compressed blob: sequences of encoded characters ("A",
\* e-acute, the euro sign, an emoji) and of ill-formed fragments (an
\* encoded surrogate, a lead byte alone, a continuation byte alone, a
\* truncated sequence, the byte 255).
ContentUnits ==
  { <<65>>, <<195, 169>>, <<226, 130, 172>>, <<240, 159, 152, 128>>,
    <<237, 160, 128>>, <<195>>, <<128>>, <<226, 130>>, <<255>> }

Contents == {Flatten(q) : q \in SeqsUpTo(ContentUnits, MaxUnits)}

\* The data of a snapshot as posted to the capture proxy: a gzipped blob,
\* a blob with the magic bytes that does not gunzip, and plain strings.
WireBlobs ==
  {BufferToLatin1(Gzip(c)) : c \in Contents}
  \cup { <<31, 139, 8, 0, 65, 7>>, <<31, 139>>, <<123, 125>> }

SnapshotTypes == {2, 3}

CodecInputs ==
  {Snapshot(t, w, FALSE, FALSE) : t \in SnapshotTypes, w \in WireBlobs}

CodecInit ==
  /\ ReplayInit
  /\ phase = "direct"
  /\ TimeIdle
  /\ codecSnapshot \in CodecInputs
  /\ codecLogged = Snapshot(0, <<>>, FALSE, FALSE)
  /\ codecWarned = FALSE
  /\ codecPc = "wire"
  /\ RepairIdle
  /\ Rev1Idle
  /\ CaptureIdle
  /\ LaterIdle

\* The capture proxy receives the snapshot (from the browser, or from a
\* replay) and logs it after decompressNestedSnapshots.
CodecCapture ==
  /\ codecPc \in {"wire", "dispatched"}
  /\ codecSnapshot' = DecompressSnapshot(codecSnapshot)
  /\ codecLogged' = IF codecPc = "wire" THEN codecSnapshot' ELSE codecLogged
  /\ codecPc' = IF codecPc = "wire" THEN "logged" ELSE "relogged"
  /\ UNCHANGED <<notCodecVars, codecWarned>>

\* recompressNestedSnapshots inside modifyAndRecompress; gzipSync or
\* toString may throw (a blob beyond the buffer or string size limit).
CodecRecompress ==
  /\ codecPc = "logged"
  /\ \E gzipOk \in BOOLEAN :
       /\ codecSnapshot' = RecompressSnapshot(codecSnapshot, gzipOk)
       /\ codecWarned' =
            (codecSnapshot.type = 2 /\ codecSnapshot.flagged /\ ~gzipOk)
  /\ codecPc' = "recompressed"
  /\ UNCHANGED <<notCodecVars, codecLogged>>

\* modifyAndRecompress returns the chunks; sendToPostHog posts them.
CodecDispatch ==
  /\ codecPc = "recompressed"
  /\ codecPc' = "dispatched"
  /\ UNCHANGED <<notCodecVars, codecSnapshot, codecLogged, codecWarned>>

CodecNext ==
  \/ CodecCapture
  \/ CodecRecompress
  \/ CodecDispatch

CodecSpec == CodecInit /\ [][CodecNext]_vars

\* C14: a blob x that capture flagged as originally compressed, once
\* recompressed by the replay (gzip, then latin1), passes the magic-byte
\* test of capture, and the capture decompression of it (latin1, gunzip,
\* utf8) gives x again, flagged again and without a decompression error.
C14_BlobRoundTrip ==
  (codecLogged.flagged /\ ~codecWarned) =>
    /\ (codecPc \in {"recompressed", "dispatched"}) =>
         /\ LooksCompressed(codecSnapshot.data)
         /\ ~codecSnapshot.flagged
    /\ (codecPc = "relogged") =>
         /\ codecSnapshot.data = codecLogged.data
         /\ codecSnapshot.flagged
         /\ ~codecSnapshot.error

\* C14 witness: a blob holding a surrogate pair and a replacement character
\* has gone through recompression and a second capture.
C14_Witness ==
  /\ codecPc = "relogged"
  /\ codecLogged.flagged
  /\ ~codecWarned
  /\ \E i, j \in 1..Len(codecLogged.data) :
       /\ IsHighSurrogate(codecLogged.data[i])
       /\ codecLogged.data[j] = 65533

\* C15: a snapshot flagged as originally compressed whose recompression
\* fails is not dispatched with its blob left uncompressed: the failure
\* reaches the caller, so every flagged snapshot that is dispatched holds
\* a recompressed blob and no failure was merely logged.
C15_RecompressionFailureIsHard ==
  (codecPc = "dispatched" /\ codecLogged.type = 2 /\ codecLogged.flagged) =>
    /\ ~codecWarned
    /\ LooksCompressed(codecSnapshot.data)
    /\ ~codecSnapshot.flagged

\* ------------------------------------------------------------ DOM repair
MaxDepth == 2           \* levels of nodes below the root of a DOM tree
MaxChildren == 2        \* entries of one childNodes array

\* node.attributes: absent, or an object with entries.  EmptyAttributes is
\* the object {} that the repair assigns.
EmptyAttributes == "{}"

AttributeValues == {Undefined, "{class}"}

\* A serialized DOM node.  An absent childNodes and an empty childNodes array
\* are both <<>>: neither is iterated.
Node(t, a, cs) ==
  [isNull |-> FALSE, type |-> t, attributes |-> a, childNodes |-> cs]

\* A null entry of a childNodes array.
NullNode ==
  [isNull |-> TRUE, type |-> 0, attributes |-> Undefined, childNodes |-> <<>>]

\* Element nodes (type 2) with and without attributes, text nodes (type 3).
NodeHeads == {<<2, a>> : a \in AttributeValues} \cup {<<3, Undefined>>}

RECURSIVE Trees(_)
Trees(depth) ==
  IF depth = 0
  THEN {Node(h[1], h[2], <<>>) : h \in NodeHeads}
  ELSE {Node(h[1], h[2], cs) :
          h \in NodeHeads,
          cs \in SeqsUpTo(Trees(depth - 1) \cup {NullNode}, MaxChildren)}

\* Mutant of FixNodeAttributes: children are visited only when the node
\* itself needed no repair.
RECURSIVE FixNodeAttributesElseRecurse(_)
FixNodeAttributesElseRecurse(node) ==
  IF node.isNull
  THEN node
  ELSE IF node.type = 2 /\ node.attributes = Undefined
       THEN [node EXCEPT !.attributes = EmptyAttributes]
       ELSE [node EXCEPT
               !.childNodes =
                 [i \in 1..Len(@) |-> FixNodeAttributesElseRecurse(@[i])]]

\* Mutant of FixNodeAttributes: every element node is given {}.
RECURSIVE FixNodeAttributesOverwrite(_)
FixNodeAttributesOverwrite(node) ==
  IF node.isNull
  THEN node
  ELSE [node EXCEPT
          !.attributes = IF node.type = 2 THEN EmptyAttributes ELSE @,
          !.childNodes =
            [i \in 1..Len(@) |-> FixNodeAttributesOverwrite(@[i])]]

\* fixNodeAttributes(node)
RECURSIVE FixNodeAttributes(_)
FixNodeAttributes(node) ==
  IF node.isNull
  THEN node
  ELSE [node EXCEPT
          !.attributes = IF node.type = 2 /\ @ = Undefined
                         THEN EmptyAttributes
                         ELSE @,
          !.childNodes = [i \in 1..Len(@) |-> FixNodeAttributes(@[i])]]

\* snapshot.data of an entry of $snapshot_data: kind "tree" is an object
\* { node }, kind "string" a JSON text; node is the DOM tree that the
\* object holds or that the text denotes.  valid = FALSE: the text does
\* not parse.
DomSnapshot(t, k, v, n) == [type |-> t, kind |-> k, valid |-> v, node |-> n]

\* fixDOMNodeAttributes(data) as seen in data afterwards: an object is
\* repaired in place; a text is parsed and the parsed copy is repaired
\* and dropped, the text stays as it is; a parse error is caught.
FixDOMNodeAttributes(data) ==
  IF data.kind = "tree"
  THEN [data EXCEPT !.node = FixNodeAttributes(@)]
  ELSE data

\* The callback of $snapshot_data.forEach in ensureDOMAttributesExist.
EnsureDOMAttributesExist(s) ==
  IF s.type = 2 THEN FixDOMNodeAttributes(s) ELSE s

DomInputs ==
  {DomSnapshot(t, k, TRUE, n) :
     t \in SnapshotTypes, k \in {"tree", "string"}, n \in Trees(MaxDepth)}
  \cup {DomSnapshot(2, "string", FALSE, Node(3, Undefined, <<>>))}

RepairInit ==
  /\ ReplayInit
  /\ phase = "direct"
  /\ TimeIdle
  /\ CodecIdle
  /\ Rev1Idle
  /\ CaptureIdle
  /\ LaterIdle
  /\ repairSnapshot \in DomInputs
  /\ repairPc = "source"

\* ensureDOMAttributesExist(chunks) inside modifyAndRecompress.
RepairEnsureDOMAttributes ==
  /\ repairPc = "source"
  /\ repairSnapshot' = EnsureDOMAttributesExist(repairSnapshot)
  /\ repairPc' = "repaired"
  /\ UNCHANGED notRepairVars

\* The output of a replay is replayed: ensureDOMAttributesExist once more.
RepairAgain ==
  /\ repairPc = "repaired"
  /\ repairSnapshot' = EnsureDOMAttributesExist(repairSnapshot)
  /\ repairPc' = "repairedTwice"
  /\ UNCHANGED notRepairVars

RepairNext ==
  \/ RepairEnsureDOMAttributes
  \/ RepairAgain

RepairSpec == RepairInit /\ [][RepairNext]_vars

\* Every element node of the tree has an attributes container.
RECURSIVE ElementsHaveAttributes(_)
ElementsHaveAttributes(node) ==
  \/ node.isNull
  \/ /\ (node.type = 2) => node.attributes # Undefined
     /\ \A i \in 1..Len(node.childNodes) :
          ElementsHaveAttributes(node.childNodes[i])

\* C16: after the repair step every element node (type 2) of the DOM tree
\* of every type-2 snapshot has an attributes container, at every depth,
\* whether the data of the snapshot is a parsed tree or a JSON text.
C16_ElementsHaveAttributes ==
  (repairPc \in {"repaired", "repairedTwice"}
     /\ repairSnapshot.type = 2 /\ repairSnapshot.valid) =>
    ElementsHaveAttributes(repairSnapshot.node)

\* C17: the repair is idempotent: repairing a snapshot that the repair has
\* already been applied to changes nothing.
C17_RepairIdempotent ==
  [][ (repairPc = "repaired" /\ repairPc' = "repairedTwice") =>
        repairSnapshot' = repairSnapshot ]_vars

\* C17 witness: a parsed tree whose root and whose grandchild were given
\* attributes has been repaired a second time.
C17_Witness ==
  /\ repairPc = "repairedTwice"
  /\ repairSnapshot.type = 2
  /\ repairSnapshot.kind = "tree"
  /\ repairSnapshot.node.attributes = EmptyAttributes
  /\ \E i \in 1..Len(repairSnapshot.node.childNodes) :
       LET child == repairSnapshot.node.childNodes[i]
       IN \E j \in 1..Len(child.childNodes) :
            child.childNodes[j].attributes = EmptyAttributes

\* Node b is node a up to attributes added by the repair: same type, the
\* same children in the same order (each up to added attributes), the
\* attributes of a if a has some, and otherwise either none or, for an
\* element node only, the empty object.
RECURSIVE OnlyAttributesAdded(_, _)
OnlyAttributesAdded(a, b) ==
  /\ b.isNull = a.isNull
  /\ b.type = a.type
  /\ IF a.attributes # Undefined
     THEN b.attributes = a.attributes
     ELSE \/ b.attributes = Undefined
          \/ a.type = 2 /\ ~a.isNull /\ b.attributes = EmptyAttributes
  /\ Len(b.childNodes) = Len(a.childNodes)
  /\ \A i \in 1..Len(a.childNodes) :
       OnlyAttributesAdded(a.childNodes[i], b.childNodes[i])

\* C18: the repair changes nothing but the attributes of element nodes
\* that had none, which become the empty object: type, existing attributes
\* and the number and order of children of every node are as before, no
\* node of another type is given attributes, and the snapshot's own type and
\* the form of its data are as before.
C18_RepairFrame ==
  [][ (repairPc = "source" /\ repairPc' = "repaired") =>
        /\ repairSnapshot'.type = repairSnapshot.type
        /\ repairSnapshot'.kind = repairSnapshot.kind
        /\ repairSnapshot'.valid = repairSnapshot.valid
        /\ OnlyAttributesAdded(repairSnapshot.node, repairSnapshot'.node)
    ]_vars

\* C18 witness: a repaired parsed tree with an element node that was given
\* attributes beside an element node that kept its own, a text node and a
\* null entry.
C18_Witness ==
  /\ repairPc = "repaired"
  /\ repairSnapshot.type = 2
  /\ repairSnapshot.kind = "tree"
  /\ repairSnapshot.node.attributes = "{class}"
  /\ \E i \in 1..Len(repairSnapshot.node.childNodes) :
       LET child == repairSnapshot.node.childNodes[i]
       IN /\ child.attributes = EmptyAttributes
          /\ Len(child.childNodes) = 2
          /\ child.childNodes[1].type = 3
          /\ child.childNodes[2].isNull

\* ------------------------------------------------- dispatch of a record
\* The batch POSTs issued for the record in the loop body.
RecordBatches ==
  Cardinality({i \in 1..Len(dispatchLog) : dispatchLog[i] = "batch"})

\* Batch POSTs of the record in the loop body that are certainly still
\* unanswered: those in flight beyond the ones issued for earlier records.
RecordBatchesInFlight ==
  IF inFlight > batchPosts - RecordBatches
  THEN inFlight - (batchPosts - RecordBatches)
  ELSE 0

\* The recording POST of the record in the loop body is unanswered.
RecordingPostInFlight == IF pc = "awaitPost" THEN 1 ELSE 0

\* C19: the dispatch stages of one record run one after another: at no
\* time are two requests of the same record (a batch POST and the
\* recording POST, or two batch POSTs) unanswered together, so a request of
\* the record is issued only when the previous one has been answered.
C19_StagesSequential ==
  (pc # "idle") => RecordBatchesInFlight + RecordingPostInFlight <= 1

\* C20: when replaySession resolves, every record of the log has been
\* transformed and answered and no request issued by the call is still
\* unanswered.
C20_ResolvedMeansAllAnswered ==
  (pc = "resolved") =>
    /\ recIdx = numRecordings
    /\ Len(recordingResponses) = numRecordings
    /\ inFlight = 0

\* -------------------------------------------------------- first revision
\* replaySession of the first revision: recordings.forEach(async ...) and
\* newSessionIds.forEach(async ...) start callbacks that nobody awaits.
\* Each callback runs up to its first await inside the forEach; what
\* follows an await runs after replaySession has returned.

\* A record of recordings.jsonl, given by decompressed[0].properties
\* .$session_id; "malformed": the record has no decompressed array.
Rev1Records == SessionIds \cup {Undefined, "malformed"}

\* The callback of newSessionIds.forEach, suspended in loadAndModifyEvents
\* (state "reading") or ended; sources are the events it has loaded.
EventTask(k, n, st, srcs) ==
  [key |-> k, newId |-> n, state |-> st, sources |-> srcs]

Rev1Init ==
  /\ phase = "revision1"
  /\ ReplayIdle
  /\ ContentIdle
  /\ CaptureIdle
  /\ LaterIdle
  /\ r1Pc = "readLog"
  /\ r1Log = <<>>
  /\ r1Idx = 0
  /\ r1Events \in EventsFileInputs
  /\ r1SessionIds = <<>>
  /\ r1Callbacks = <<>>
  /\ r1EventTasks = <<>>
  /\ r1Responses = 0
  /\ r1Result = [returned |-> FALSE, success |-> FALSE, responses |-> 0]
  /\ r1InFlight = 0

\* fs.readFile of recordings.jsonl fails: the catch block rethrows.
R1ReadRecordingsFails ==
  /\ r1Pc = "readLog"
  /\ r1Pc' = "rejected"
  /\ UNCHANGED <<notRev1Vars, r1Log, r1Idx, r1Events, r1SessionIds,
                 r1Callbacks, r1EventTasks, r1Responses, r1Result,
                 r1InFlight>>

\* The log is read; an empty log makes replaySession return undefined.
R1ReadRecordings ==
  /\ r1Pc = "readLog"
  /\ \E log \in SeqsUpTo(Rev1Records, MaxRecordings) :
       /\ r1Log' = log
       /\ r1Pc' = IF log = <<>> THEN "returned" ELSE "recordings"
       /\ r1Idx' = IF log = <<>> THEN 0 ELSE 1
       /\ r1Result' = [r1Result EXCEPT !.returned = (log = <<>>)]
  /\ UNCHANGED <<notRev1Vars, r1Events, r1SessionIds, r1Callbacks,
                 r1EventTasks, r1Responses, r1InFlight>>

\* recordings.forEach calls the callback of the next record: it runs
\* modifyAndRecompress (no await inside: the map is updated now) and is
\* suspended at its await.  After the last record the forEach over the map
\* begins.
R1RecordingCallback ==
  /\ r1Pc = "recordings"
  /\ LET rec == r1Log[r1Idx]
     IN IF rec = "malformed"
        THEN /\ r1Callbacks' = Append(r1Callbacks, "rejected")
             /\ UNCHANGED r1SessionIds
        ELSE /\ r1SessionIds' =
                  GetOrCreate(r1SessionIds, rec,
                              randomUUID(Len(r1SessionIds)))
             /\ r1Callbacks' = Append(r1Callbacks, "transformed")
  /\ r1Idx' = IF r1Idx < Len(r1Log) THEN r1Idx + 1 ELSE 1
  /\ r1Pc' = IF r1Idx < Len(r1Log) THEN "recordings" ELSE "sessions"
  /\ UNCHANGED <<notRev1Vars, r1Log, r1Events, r1EventTasks, r1Responses,
                 r1Result, r1InFlight>>

\* newSessionIds.forEach calls the callback of the next entry: it calls
\* loadAndModifyEvents, which is suspended at fs.readFile.
R1SessionCallback ==
  /\ r1Pc = "sessions"
  /\ r1Idx <= Len(r1SessionIds)
  /\ r1EventTasks' =
       Append(r1EventTasks,
              EventTask(r1SessionIds[r1Idx][1], r1SessionIds[r1Idx][2],
                        "reading", <<>>))
  /\ r1Idx' = r1Idx + 1
  /\ UNCHANGED <<notRev1Vars, r1Pc, r1Log, r1Events, r1SessionIds,
                 r1Callbacks, r1Responses, r1Result, r1InFlight>>

\* return { success: true, recordingResponses }
R1Return ==
  /\ r1Pc = "sessions"
  /\ r1Idx > Len(r1SessionIds)
  /\ r1Pc' = "returned"
  /\ r1Result' = [returned |-> TRUE, success |-> TRUE,
                  responses |-> r1Responses]
  /\ UNCHANGED <<notRev1Vars, r1Log, r1Idx, r1Events, r1SessionIds,
                 r1Callbacks, r1EventTasks, r1Responses, r1InFlight>>

\* The callback of a record resumes after modifyAndRecompress and issues
\* the recording POST.
R1SendToPostHog ==
  /\ r1Pc = "returned"
  /\ \E i \in 1..Len(r1Callbacks) :
       /\ r1Callbacks[i] = "transformed"
       /\ r1Callbacks' = [r1Callbacks EXCEPT ![i] = "awaitPost"]
  /\ UNCHANGED <<notRev1Vars, r1Pc, r1Log, r1Idx, r1Events, r1SessionIds,
                 r1EventTasks, r1Responses, r1Result, r1InFlight>>

\* The recording POST of a record is answered (2xx: the response is
\* pushed) or fails (other status, network error: the callback rejects).
R1RecordingResponse ==
  /\ r1Pc = "returned"
  /\ \E i \in 1..Len(r1Callbacks) :
       /\ r1Callbacks[i] = "awaitPost"
       /\ \E ok \in BOOLEAN :
            /\ r1Callbacks' =
                 [r1Callbacks EXCEPT ![i] = IF ok THEN "done" ELSE "rejected"]
            /\ r1Responses' = IF ok THEN r1Responses + 1 ELSE r1Responses
  /\ UNCHANGED <<notRev1Vars, r1Pc, r1Log, r1Idx, r1Events, r1SessionIds,
                 r1EventTasks, r1Result, r1InFlight>>

\* fs.readFile of events.jsonl completes for the callback of an entry:
\* loadAndModifyEvents selects and rewrites the events of the entry's
\* session; a batch, if any, is handed to an unawaited fetch.
R1EventsLoaded ==
  /\ r1Pc = "returned"
  /\ \E k \in 1..Len(r1EventTasks) :
       LET task == r1EventTasks[k]
           matching == SelectSeq(r1Events.events,
                                 LAMBDA e : MatchesSession(e, task.key))
       IN /\ task.state = "reading"
          /\ r1EventTasks' =
               [r1EventTasks EXCEPT
                  ![k] = EventTask(task.key, task.newId, "done", matching)]
          /\ r1InFlight' = IF r1Events.exists /\ Len(matching) > 0
                           THEN r1InFlight + 1
                           ELSE r1InFlight
  /\ UNCHANGED <<notRev1Vars, r1Pc, r1Log, r1Idx, r1Events, r1SessionIds,
                 r1Callbacks, r1Responses, r1Result>>

\* The unawaited fetch of a batch gets its response, whatever the status.
R1BatchResponse ==
  /\ r1Pc = "returned"
  /\ r1InFlight > 0
  /\ r1InFlight' = r1InFlight - 1
  /\ UNCHANGED <<notRev1Vars, r1Pc, r1Log, r1Idx, r1Events, r1SessionIds,
                 r1Callbacks, r1EventTasks, r1Responses, r1Result>>

\* A rejected callback or a failed fetch is an unhandled rejection: the
\* process ends.
R1UnhandledRejection ==
  /\ r1Pc = "returned"
  /\ \/ \E i \in 1..Len(r1Callbacks) : r1Callbacks[i] = "rejected"
     \/ r1InFlight > 0
  /\ r1Pc' = "crashed"
  /\ r1InFlight' = 0
  /\ UNCHANGED <<notRev1Vars, r1Log, r1Idx, r1Events, r1SessionIds,
                 r1Callbacks, r1EventTasks, r1Responses, r1Result>>

Rev1Next ==
  \/ R1ReadRecordingsFails
  \/ R1ReadRecordings
  \/ R1RecordingCallback
  \/ R1SessionCallback
  \/ R1Return
  \/ R1SendToPostHog
  \/ R1RecordingResponse
  \/ R1EventsLoaded
  \/ R1BatchResponse
  \/ R1UnhandledRejection

Rev1Spec == Rev1Init /\ [][Rev1Next]_vars

\* Both revisions: a run of the latest one or a run of the first one.
RevisionsInit == Init \/ Rev1Init

RevisionsNext == Next \/ Rev1Next

RevisionsSpec == RevisionsInit /\ [][RevisionsNext]_vars

\* C21: the events of a session are loaded, rewritten and dispatched only
\* once the identity mapping holds the session's entry, and that entry is
\* final by then.  Latest revision: the events selected for a batch all
\* belong to a session that has an entry, and the batch carries the value
\* of that entry.  First revision: every callback that loads events works
\* for a session whose entry exists with the id the callback uses, the
\* events it loaded are events of that session, and the mapping does not
\* change once the first such callback exists.
C21_MappingBeforeEvents ==
  /\ [](/\ (pc = "sendBatch") =>
             /\ \A e \in Range(MatchingEvents) :
                  /\ MapHas(newSessionIds, e.session_id)
                  /\ MapGet(newSessionIds, e.session_id) =
                       newSessionIds[entryIdx][2]
             /\ \A e \in Range(batchData.batch) :
                  e.session_id = newSessionIds[entryIdx][2]
        /\ \A k \in 1..Len(r1EventTasks) :
             /\ MapHas(r1SessionIds, r1EventTasks[k].key)
             /\ MapGet(r1SessionIds, r1EventTasks[k].key) =
                  r1EventTasks[k].newId
             /\ \A e \in Range(r1EventTasks[k].sources) :
                  /\ MapHas(r1SessionIds, e.session_id)
                  /\ MapGet(r1SessionIds, e.session_id) =
                       r1EventTasks[k].newId)
  /\ [][ (r1EventTasks # <<>>) => r1SessionIds' = r1SessionIds ]_vars

\* C21 witness: in the first revision the events of the second of two
\* sessions were loaded and handed to the network while no recording POST
\* had been issued yet.
C21_Witness ==
  /\ r1Pc = "returned"
  /\ Len(r1SessionIds) = 2
  /\ Len(r1EventTasks) = 2
  /\ r1EventTasks[2].state = "done"
  /\ Len(r1EventTasks[2].sources) > 0
  /\ r1InFlight > 0
  /\ \A i \in 1..Len(r1Callbacks) : r1Callbacks[i] = "transformed"

\* C22: when the recordings log cannot be read, the call ends with the
\* error thrown to its caller, never with a result, and it has issued no
\* request: no recording POST and no batch POST; the caller receives the
\* error next.
C22_MissingLogAborts ==
  /\ [](failure = "ENOENT" =>
          /\ pc = "rejected"
          /\ recPosts = 0 /\ batchPosts = 0
          /\ dispatchLog = <<>>
          /\ recordingResponses = <<>>
          /\ newSessionIds = <<>>)
  /\ [][ (failure = "ENOENT") =>
           (phase' = "crashed" /\ pc' = "idle" /\ dataSent' = dataSent)
     ]_vars

\* C22 witness: the live run finds no recordings log.
C22_Witness ==
  /\ phase = "liveRun"
  /\ ~dryRun
  /\ pc = "rejected"
  /\ failure = "ENOENT"

\* ----------------------------------------------------------- capture proxy
\* The express application that sits between the browser SDK and the
\* ingestion host: it logs the POSTs of /s/* (recordings) and of /e/*
\* (events) and forwards every request. One action is one request handled
\* from the body parser to proxyRequest; requests are handled one at a
\* time and the file system does not fail.
MaxRequests == 2        \* requests handled by the proxy
MaxBlobs == 2           \* entries of $snapshot_data in one request

ContentEncodings == {Undefined, "gzip", "br"}
CompressionFlags == {Undefined, "gzip-js"}
ContentTypes == {"application/json", "text/plain"}

\* The entries of $snapshot_data that a client posts: a gzipped blob, a
\* blob with the magic bytes that does not gunzip, an incremental entry.
CaptureSnapshots ==
  { Snapshot(2, BufferToLatin1(Gzip(<<65>>)), FALSE, FALSE),
    Snapshot(2, <<31, 139, 8, 0, 65, 7>>, FALSE, FALSE),
    Snapshot(3, <<123, 125>>, FALSE, FALSE) }

\* A parsed JSON object: keys = FALSE is the object {}.
Json(t) == [keys |-> TRUE, snapshots |-> t]

EmptyObject == [keys |-> FALSE, snapshots |-> <<>>]

Payloads ==
  {Json(t) : t \in SeqsUpTo(CaptureSnapshots, MaxBlobs) \ {<<>>}}
  \cup {EmptyObject}

\* The bytes of a request body. enc: "empty" (no byte), "plain" (text),
\* "gzip" (a gzip stream of text), "corrupt" (the magic bytes, then bytes
\* that do not gunzip); json: the text is JSON, of the object tree.
Body(e, j, t) == [enc |-> e, json |-> j, tree |-> t]

EmptyBody == Body("empty", FALSE, EmptyObject)

Bodies ==
  {EmptyBody}
  \cup {Body(e, TRUE, t) : e \in {"plain", "gzip"}, t \in Payloads}
  \cup {Body(e, FALSE, EmptyObject) : e \in {"plain", "gzip", "corrupt"}}

Request(p, enc, flag, ct, b) ==
  [path |-> p, encoding |-> enc, compression |-> flag, contentType |-> ct,
   body |-> b]

Requests(p) ==
  {Request(p, enc, flag, ct, b) :
     enc \in ContentEncodings, flag \in CompressionFlags,
     ct \in ContentTypes, b \in Bodies}

\* buffer.length >= 2 && buffer[0] === 0x1f && buffer[1] === 0x8b
HasGzipMagic(b) == b.enc \in {"gzip", "corrupt"}

\* zlib.gunzipSync(buffer): ok = FALSE when it throws.
GunzipSync(b) == [ok |-> b.enc = "gzip", text |-> b]

\* zlib.inflateSync and zlib.brotliDecompressSync: no body of Bodies is a
\* deflate or a brotli stream, both throw.
OtherDecompressSync(b) == [ok |-> FALSE, text |-> b]

\* JSON.parse(text): ok = FALSE when it throws.
JsonParse(b) == [ok |-> b.json, value |-> b.tree]

\* req.body: a Buffer (isBuffer) or what JSON.parse returned.
ReqBody(isBuf, v) == [isBuffer |-> isBuf, value |-> v]

\* The test of the body parser for a compressed body.
IsCompressedBody(req) ==
  \/ req.encoding # Undefined
  \/ HasGzipMagic(req.body)
  \/ req.compression # Undefined

\* The body parser middleware: req.rawBody is the bytes received, req.body
\* is what this returns.
BodyParser(req) ==
  IF ~IsCompressedBody(req) /\ req.body.enc # "empty"
  THEN IF req.contentType = "application/json"
       THEN IF JsonParse(req.body).ok
            THEN ReqBody(FALSE, JsonParse(req.body).value)
            ELSE ReqBody(FALSE, EmptyObject)
       ELSE ReqBody(FALSE, EmptyObject)
  ELSE ReqBody(TRUE, EmptyObject)

\* req.body && typeof req.body === "object" &&
\* Object.keys(req.body).length > 0: the keys of a Buffer are its indices.
HasKeys(req) ==
  IF BodyParser(req).isBuffer
  THEN req.body.enc # "empty"
  ELSE BodyParser(req).value.keys

\* The data field of a record: a Buffer as JSON.stringify writes it
\* ({type: "Buffer", data: [...]}) or a parsed object.
BufferData(b) == [isBuffer |-> TRUE, bytes |-> b, value |-> EmptyObject]

JsonData(v) == [isBuffer |-> FALSE, bytes |-> EmptyBody, value |-> v]

ReqBodyData(req) ==
  IF BodyParser(req).isBuffer
  THEN BufferData(req.body)
  ELSE JsonData(BodyParser(req).value)

\* The decompressed field of a record, when the record has one.
Decompressed(v) == [present |-> TRUE, value |-> v]

NoDecompressed == [present |-> FALSE, value |-> EmptyObject]

\* The object that appendToJSONL serialises (without its two timestamps).
LogRecord(type, data, decompressed, req) ==
  [type |-> type, data |-> data, decompressed |-> decompressed,
   headers |-> [encoding |-> req.encoding, contentType |-> req.contentType],
   query |-> [compression |-> req.compression]]

\* decompressNestedSnapshots(parsedData) on the $snapshot_data of the
\* request.
DecompressNestedSnapshots(v) ==
  [v EXCEPT !.snapshots =
     [i \in DOMAIN v.snapshots |-> DecompressSnapshot(v.snapshots[i])]]

\* The if-chain that picks the decompression; attempted = FALSE: no
\* branch was taken, decompressedData stays null.
DecompressBody(req) ==
  IF req.encoding = "gzip" \/ req.compression = "gzip-js"
  THEN [attempted |-> TRUE, ok |-> GunzipSync(req.body).ok]
  ELSE IF req.encoding \in {"deflate", "br"}
       THEN [attempted |-> TRUE, ok |-> OtherDecompressSync(req.body).ok]
       ELSE [attempted |-> FALSE, ok |-> FALSE]

\* decompressedData was set and JSON.parse of it returned.
BodyExpands(req) ==
  /\ DecompressBody(req).attempted
  /\ DecompressBody(req).ok
  /\ JsonParse(req.body).ok

\* What app.post("/s/*") hands to appendToJSONL; saved = FALSE: no branch
\* of the handler saves.
RecordingRecord(req) ==
  IF req.encoding = Undefined /\ HasKeys(req)
  THEN [saved |-> TRUE,
        record |-> LogRecord("recording", ReqBodyData(req),
                             NoDecompressed, req)]
  ELSE IF req.body.enc # "empty"
       THEN IF BodyExpands(req)
            THEN [saved |-> TRUE,
                  record |->
                    LogRecord("recording", BufferData(req.body),
                      Decompressed(
                        DecompressNestedSnapshots(JsonParse(req.body).value)),
                      req)]
            ELSE [saved |-> TRUE,
                  record |-> LogRecord("recording", BufferData(req.body),
                                       NoDecompressed, req)]
       ELSE [saved |-> FALSE,
             record |-> LogRecord("recording", BufferData(req.body),
                                  NoDecompressed, req)]

\* The test of app.post("/e/*") for a compressed request.
IsCompressedEvent(req) ==
  \/ req.compression = "gzip-js"
  \/ req.encoding \in {"gzip", "deflate", "br"}

\* What app.post("/e/*") hands to appendToJSONL.
EventRecord(req) ==
  IF IsCompressedEvent(req) /\ req.body.enc # "empty"
  THEN IF BodyExpands(req)
       THEN [saved |-> TRUE,
             record |-> LogRecord("event", JsonData(JsonParse(req.body).value),
                                  NoDecompressed, req)]
       ELSE [saved |-> TRUE,
             record |-> LogRecord("event", BufferData(req.body),
                                  NoDecompressed, req)]
  ELSE IF req.encoding = Undefined /\ HasKeys(req)
       THEN [saved |-> TRUE,
             record |-> LogRecord("event", ReqBodyData(req),
                                  NoDecompressed, req)]
       ELSE [saved |-> FALSE,
             record |-> LogRecord("event", BufferData(req.body),
                                  NoDecompressed, req)]

\* Mutant of AppendToJSONL: the file is written anew.
AppendToJSONLOverwrite(log, saved) == <<saved.record>>

\* appendToJSONL(filename, data): fs.appendFile of one line.
AppendToJSONL(log, saved) ==
  IF saved.saved THEN Append(log, saved.record) ELSE log

\* proxyRequest(req, res, "us.i.posthog.com"): the raw body goes upstream.
ProxyRequest(req) ==
  [host |-> "us.i.posthog.com", path |-> req.path, body |-> req.body]

CaptureInit ==
  /\ ReplayInit
  /\ phase = "direct"
  /\ ContentIdle
  /\ Rev1Idle
  /\ CaptureIdle
  /\ LaterIdle

\* app.post("/s/*"): one recording request, from the body parser to the
\* forwarding.
CaptureRecording ==
  /\ Len(received) < MaxRequests
  /\ \E req \in Requests("/s/") :
       /\ received' = Append(received, req)
       /\ recordingsLog' = AppendToJSONL(recordingsLog, RecordingRecord(req))
       /\ upstream' = Append(upstream, ProxyRequest(req))
  /\ UNCHANGED <<notCaptureVars, eventsLog, replayRead>>

\* app.post("/e/*"): one event request.
CaptureEvent ==
  /\ Len(received) < MaxRequests
  /\ \E req \in Requests("/e/") :
       /\ received' = Append(received, req)
       /\ eventsLog' = AppendToJSONL(eventsLog, EventRecord(req))
       /\ upstream' = Append(upstream, ProxyRequest(req))
  /\ UNCHANGED <<notCaptureVars, recordingsLog, replayRead>>

\* replaySession reads the recordings file (fs.readFile).
ReplayReadsRecordings ==
  /\ replayRead' = [replayRead EXCEPT !.recordings = recordingsLog]
  /\ UNCHANGED <<notCaptureVars, received, recordingsLog, eventsLog,
                 upstream>>

\* loadAndModifyEvents reads the events file (fs.readFile).
ReplayReadsEvents ==
  /\ replayRead' = [replayRead EXCEPT !.events = eventsLog]
  /\ UNCHANGED <<notCaptureVars, received, recordingsLog, eventsLog,
                 upstream>>

CaptureNext ==
  \/ CaptureRecording
  \/ CaptureEvent
  \/ ReplayReadsRecordings
  \/ ReplayReadsEvents

CaptureSpec == CaptureInit /\ [][CaptureNext]_vars

\* ------------------------------------------------- properties of capture
\* The request that the step handles, and the record that it appends.
Handles(path) ==
  /\ Len(received') = Len(received) + 1
  /\ received'[Len(received')].path = path

Handled == received'[Len(received')]

\* The body is a gzip stream of a JSON tree, and the content-encoding
\* header, when there is one, says so.
ValidGzipRequest(req) ==
  /\ req.body.enc = "gzip"
  /\ req.body.json
  /\ req.body.tree.keys
  /\ req.encoding \in {Undefined, "gzip"}

\* A nested blob of a batch, and one that does not gunzip.
IsBlob(s) == s.type = 2 /\ LooksCompressed(s.data)

FailsToDecompress(s) == IsBlob(s) /\ ~Gunzip(Latin1ToBuffer(s.data)).ok

\* The log grew by one record, which holds the expanded tree of the body.
RecordingExpanded(req) ==
  /\ Len(recordingsLog') = Len(recordingsLog) + 1
  /\ LET r == recordingsLog'[Len(recordingsLog')]
     IN /\ r.decompressed.present
        /\ r.decompressed.value.keys
        /\ Len(r.decompressed.value.snapshots) = Len(req.body.tree.snapshots)

EventExpanded(req) ==
  /\ Len(eventsLog') = Len(eventsLog) + 1
  /\ LET r == eventsLog'[Len(eventsLog')]
     IN /\ ~r.data.isBuffer
        /\ r.data.value = req.body.tree

\* C23: a request whose body is valid gzip shows at least one of the three
\* signals (header, magic bytes, query flag); for every combination of
\* them the recording handler and the event handler decompress the body
\* and append a record that holds the expanded tree.
C23_AnySignalExpands ==
  [][ /\ (Handles("/s/") /\ ValidGzipRequest(Handled)
            /\ IsCompressedBody(Handled)) => RecordingExpanded(Handled)
      /\ (Handles("/e/") /\ ValidGzipRequest(Handled)
            /\ IsCompressedBody(Handled)) => EventExpanded(Handled)
    ]_vars

\* C24: when one nested blob of a batch fails to decompress, that blob
\* alone gets the error marker (it is not flagged, its data is as
\* received), every other blob is decompressed and flagged, and the batch
\* is appended as one record with its expanded tree.
C24_PartialFailureTolerated ==
  [][ (/\ Handles("/s/")
       /\ ValidGzipRequest(Handled)
       /\ \E i \in DOMAIN Handled.body.tree.snapshots :
            FailsToDecompress(Handled.body.tree.snapshots[i]))
      =>
      /\ RecordingExpanded(Handled)
      /\ LET in == Handled.body.tree.snapshots
             out == recordingsLog'[Len(recordingsLog')]
                      .decompressed.value.snapshots
         IN \A i \in DOMAIN in :
              /\ FailsToDecompress(in[i]) =>
                   out[i] = [in[i] EXCEPT !.error = TRUE]
              /\ (IsBlob(in[i]) /\ ~FailsToDecompress(in[i])) =>
                   /\ out[i].flagged /\ ~out[i].error
                   /\ out[i].data =
                        Utf8Decode(Gunzip(Latin1ToBuffer(in[i].data)).bytes)
              /\ ~IsBlob(in[i]) => out[i] = in[i]
    ]_vars

\* C25: every record of the two files holds the raw bytes of its request
\* and the expanded tree.
C25_RawAndExpanded ==
  \A log \in {recordingsLog, eventsLog} :
    \A i \in DOMAIN log :
      /\ log[i].data.isBuffer
      /\ log[i].decompressed.present

\* What capture wrote for the request of the step, if it wrote.
Saves ==
  \/ Handles("/s/") /\ RecordingRecord(Handled).saved
  \/ Handles("/e/") /\ EventRecord(Handled).saved

Extends(after, before) ==
  /\ Len(after) \in {Len(before), Len(before) + 1}
  /\ SubSeq(after, 1, Len(before)) = before

C27_BatchFailureReported ==
  /\ [](batchFailed => pc # "resolved")
  /\ [][ (batchFailed' /\ ~batchFailed) => pc' = "rejected" ]_vars

\* A program that uses the exported class: it builds the instance with or
\* without a targetHost of its own and calls replaySession() with no
\* options or with { dryRun: false }.
LibraryModes == {Undefined, "false"}

LibraryInit ==
  /\ phase = "library"
  /\ ReplayIdle
  /\ ContentIdle
  /\ Rev1Idle
  /\ CaptureIdle
  /\ LaterIdle

LibraryReplaySession ==
  /\ Alive
  /\ phase = "library"
  /\ pc = "idle"
  /\ replaysDone = 0
  /\ \E u \in Users, h \in TargetHostInputs, m \in LibraryModes :
       StartCall(m, u, h)
  /\ UNCHANGED <<driverVars, netVars>>
  /\ UNCHANGED otherVars

LibraryNext ==
  \/ LibraryReplaySession
  \/ ReplayReturns
  \/ ReplayThrows
  \/ ReadRecordingsFails
  \/ ReadRecordings
  \/ ModifyAndRecompress
  \/ LoadAndModifyEvents
  \/ LoadAndModifyEventsFails
  \/ SendEventsToPostHog
  \/ SendToPostHog
  \/ RecordingResponse
  \/ RecordingRequestError
  \/ BatchResponse
  \/ BatchRequestError

LibrarySpec == LibraryInit /\ [][LibraryNext]_vars

\* C30: every request that a live call writes, recording POST or batch
\* POST, goes to the target host of the configuration of the instance.
C30_OnlyTargetHost ==
  \A i \in DOMAIN dispatchLog :
    RequestHost(dispatchLog[i], config) = config.targetHost

\* ---------------------------------------------------- the batch of a session
\* The original sessions of the call that have events in the events log.
SessionsWithEvents ==
  {s \in {newSessionIds[i][1] : i \in DOMAIN newSessionIds} :
     \E e \in Range(eventsFile.events) :
       Truthy(e.session_id) /\ e.session_id = s}

\* C28: in a live call the batch of each original session is dispatched
\* exactly once: never more batch POSTs than sessions with events, and as
\* many when the call resolves.
C28_BatchOncePerSession ==
  ~dryRun =>
    /\ batchPosts <= Cardinality(SessionsWithEvents)
    /\ (pc = "resolved") => batchPosts = Cardinality(SessionsWithEvents)

\* The positions of the events log that hold an event of session s (an
\* event without a session id is of no session), and the j-th of them in
\* log order.
PositionsOf(s) ==
  {i \in DOMAIN eventsFile.events :
     /\ Truthy(eventsFile.events[i].session_id)
     /\ eventsFile.events[i].session_id = s}

NthPositionOf(s, j) ==
  CHOOSE i \in PositionsOf(s) :
    Cardinality({k \in PositionsOf(s) : k <= i}) = j

\* The batch is the events of session s, each once, in log order, under
\* the new session id; no event of s: loadAndModifyEvents returned null.
IsBatchOf(b, s, newId) ==
  IF PositionsOf(s) = {}
  THEN b.isNull
  ELSE /\ ~b.isNull
       /\ Len(b.batch) = Cardinality(PositionsOf(s))
       /\ \A j \in DOMAIN b.batch :
            /\ b.batch[j].session_id = newId
            /\ b.batch[j].is_identified =
                 eventsFile.events[NthPositionOf(s, j)].is_identified

\* C29: the batch that loadAndModifyEvents builds for a session holds the
\* logged events of that session and no other, each once, in log order,
\* every one under the new session id.
C29_BatchIsSessionEvents ==
  [][ (/\ pc = "events"
       /\ entryIdx <= Len(newSessionIds)
       /\ (pc' = "sendBatch" \/ entryIdx' = entryIdx + 1))
      => IsBatchOf(batchData', newSessionIds[entryIdx][1],
                   newSessionIds[entryIdx][2])
    ]_vars

\* C29 witness: a batch of two events of one session that differ, built
\* from a log that holds them in that order.
C29_Witness ==
  /\ pc = "sendBatch"
  /\ Len(batchData.batch) = 2
  /\ batchData.batch[1].is_identified
  /\ ~batchData.batch[2].is_identified
  /\ eventsFile.events[1].is_identified

\* ------------------------------------- the result of the first revision
\* C38: when replaySession of a revision with unawaited callbacks resolves
\* with success, recordingResponses holds one response per record of the
\* log, and a callback that fails (transforming or dispatching its record)
\* makes replaySession reject to its caller.
C38_ResultHoldsEveryResponse ==
  /\ (r1Result.returned /\ r1Result.success) =>
       r1Result.responses = Len(r1Log)
  /\ (\E i \in DOMAIN r1Callbacks : r1Callbacks[i] = "rejected") =>
       (r1Pc \in {"recordings", "sessions", "rejected"}
        /\ ~r1Result.success)

\* ----------------------------------------------- a missing events file
\* C34: a missing events file does not end the call: the event step
\* yields no batch and goes on, no batch POST is issued, and the recording
\* POST of the record is still written; a read error of another kind ends
\* the call with the error.
C34_MissingEventsFileIsSkipped ==
  /\ [](/\ failure # "eventsENOENT"
        /\ (failure = "eventsEACCES") => pc = "rejected"
        /\ (pc # "idle" /\ ~eventsFile.exists) => batchPosts = 0)
  /\ [][ /\ (/\ pc = "events"
             /\ ~eventsFile.exists
             /\ entryIdx <= Len(newSessionIds)
             /\ (pc' # pc \/ entryIdx' # entryIdx))
            => /\ batchData'.isNull
               /\ pc' = "events"
               /\ entryIdx' = entryIdx + 1
         /\ (/\ pc = "events"
             /\ ~eventsFile.exists
             /\ ~dryRun
             /\ entryIdx > Len(newSessionIds)
             /\ pc' # pc)
            => /\ pc' = "awaitPost"
               /\ recPosts' = recPosts + 1
    ]_vars

\* C34 witness: a live call without an events file has written the
\* recording POST of its record.
C34_Witness ==
  /\ phase = "liveRun"
  /\ ~dryRun
  /\ ~eventsFile.exists
  /\ pc = "awaitPost"
  /\ recPosts = 1
  /\ batchPosts = 0

\* ------------------------------------ a record without decompressed
\* C33: modifyAndRecompress of a record without a decompressed array
\* throws: the session and window maps (and the UUID source) are as they
\* were, the call rejects, and from then on nothing is sent.
C33_NoDecompressedThrowsFirst ==
  /\ [](failure = "noDecompressed" => pc = "rejected")
  /\ [][ /\ (/\ pc = "transform"
             /\ pc' \in {"events", "rejected"}
             /\ ~recording'.hasDecompressed)
            => /\ pc' = "rejected"
               /\ failure' = "noDecompressed"
               /\ newSessionIds' = newSessionIds
               /\ newWindowIds' = newWindowIds
               /\ uuidCtr' = uuidCtr
               /\ recPosts' = recPosts
               /\ batchPosts' = batchPosts
               /\ dataSent' = dataSent
         /\ (failure = "noDecompressed")
            => /\ pc' \in {"rejected", "idle"}
               /\ recPosts' <= recPosts
               /\ batchPosts' <= batchPosts
               /\ dataSent' = dataSent
    ]_vars

\* C33 witness: a live call met a record without a decompressed array.
C33_Witness ==
  /\ phase = "liveRun"
  /\ ~dryRun
  /\ failure = "noDecompressed"
  /\ ~recording.hasDecompressed
  /\ pc = "rejected"

\* ------------------------------------------ the copy that is transformed
MaxPasses == 2          \* modifyAndRecompress calls on the loaded record
MaxClock == 1           \* ticks of the wall clock

LoadedRef == 1

\* this.config of the instance that transforms the record.
CopyConfig ==
  [sessionId |-> randomUUID(0), userId |-> "user-0",
   anonId |-> randomUUID(1), targetHost |-> "us.i.posthog.com",
   timestamp |-> 300000000]

\* A chunk of recording.decompressed with two entries of $snapshot_data:
\* blob is the first entry (string data), tree the second (a DOM tree);
\* snapshots holds the timestamps of the two entries.
CopyChunk(c, t, b, d) ==
  [ids |-> c, timestamp |-> t, snapshots |-> <<100000000, 100000500>>,
   blob |-> b, tree |-> d]

CopyChunks ==
  {CopyChunk(c, t, b, d) :
     c \in {x \in SourceChunks :
              x = NoPropsChunk
              \/ (x.session_id = "A" /\ x.window_id = "W1")},
     t \in SourceInstants,
     b \in {DecompressSnapshot(
              Snapshot(2, BufferToLatin1(Gzip(<<65>>)), FALSE, FALSE)),
            Snapshot(3, <<123, 125>>, FALSE, FALSE)},
     d \in {DomSnapshot(2, "tree", TRUE,
                        Node(2, Undefined, <<Node(2, Undefined, <<>>)>>)),
            DomSnapshot(2, "tree", TRUE, Node(2, "{class}", <<>>)),
            DomSnapshot(2, "string", TRUE, Node(2, Undefined, <<>>))}}

\* An event of the events file and its timestamp.
CopyEvent(e, t, v) == [event |-> e, timestamp |-> t, lib_version |-> v]

CopyEvents ==
  {CopyEvent(e, ToISOString(100000000), ToISOString(0)) : e \in SourceEvents}

\* Mutant of JsonClone: the reference itself is returned, no copy is made.
JsonCloneAlias(ref, fresh) == ref

\* JSON.parse(JSON.stringify(x)): a new object, at a reference that was
\* not in use.
JsonClone(ref, fresh) == fresh

\* The object at ref is given the value v.
Store(heap, ref, v) ==
  IF ref = Len(heap) + 1 THEN Append(heap, v) ELSE [heap EXCEPT ![ref] = v]

\* What modifyAndRecompress does to the chunk it works on:
\* ensureDOMAttributesExist, recompressNestedSnapshots, then the forEach
\* that rewrites the identifiers and the snapshot timestamps.
ModifyCopy(chunk, newSessionId, newWindowId, cfg) ==
  IF ~chunk.ids.properties
  THEN chunk
  ELSE LET repaired == [chunk EXCEPT !.tree = EnsureDOMAttributesExist(@)]
           recompressed ==
             [repaired EXCEPT !.blob = RecompressSnapshot(@, TRUE)]
           renamed ==
             [recompressed EXCEPT
                !.ids = ModifyChunk(@, newSessionId, newWindowId, cfg)]
       IN ShiftChunkTimestamps(renamed)

\* What loadAndModifyEvents does to the event it works on.
ModifyEventCopy(ev, newSessionId, cfg, now) ==
  CopyEvent(ModifyEvent(ev.event, newSessionId, cfg),
            BatchTimestamp(cfg.timestamp), ToISOString(now))

CopyInit ==
  /\ ReplayInit
  /\ phase = "direct"
  /\ ContentIdle
  /\ Rev1Idle
  /\ CaptureIdle
  /\ SingleIdle
  /\ HandlersIdle
  /\ GenIdle
  /\ copyLog \in CopyChunks
  /\ copyFile \in CopyEvents
  /\ objects = <<copyLog>>
  /\ eventObjects = <<>>
  /\ copySessionIds = <<>>
  /\ copyWindowIds = <<>>
  /\ copyUuid = 2
  /\ copyClock = 0
  /\ copyOutputs = <<>>
  /\ copyBatches = <<>>
  /\ copyPc = "loaded"

\* modifyAndRecompress(recording, newSessionIds, newWindowIds) on the
\* loaded record.
CopyModifyAndRecompress ==
  /\ copyPc \in {"loaded", "batch"}
  /\ Len(copyOutputs) < MaxPasses
  /\ LET rec == Recording(TRUE, <<objects[LoadedRef].ids>>)
         originalSessionId == FirstField(rec, "session_id")
         originalWindowId == FirstField(rec, "window_id")
         sessionMap == GetOrCreate(copySessionIds, originalSessionId,
                                   CopyConfig.sessionId)
         windowMap == GetOrCreate(copyWindowIds, originalWindowId,
                                  randomUUID(copyUuid))
         ref == JsonClone(LoadedRef, Len(objects) + 1)
     IN /\ copySessionIds' = sessionMap
        /\ copyWindowIds' = windowMap
        /\ copyUuid' = IF MapHas(copyWindowIds, originalWindowId)
                       THEN copyUuid
                       ELSE copyUuid + 1
        /\ objects' = Store(objects, ref,
                            ModifyCopy(objects[LoadedRef],
                                       MapGet(sessionMap, originalSessionId),
                                       MapGet(windowMap, originalWindowId),
                                       CopyConfig))
        /\ copyOutputs' = Append(copyOutputs, objects'[ref])
  /\ copyPc' = "chunks"
  /\ UNCHANGED <<copyLog, copyFile, eventObjects, copyClock, copyBatches>>
  /\ UNCHANGED <<replayVars, contentVars, rev1Vars, captureVars, singleVars,
                 handlerVars, genVars>>

\* loadAndModifyEvents(originalSessionId, newSessionId) for the first
\* entry of the map: the file is read and parsed, a matching event is
\* copied and the copy is rewritten.
CopyLoadAndModifyEvents ==
  /\ copyPc = "chunks"
  /\ LET entry == copySessionIds[1]
         parsed == Len(eventObjects) + 1
         ref == JsonClone(parsed, parsed + 1)
         read == Append(eventObjects, copyFile)
     IN IF MatchesSession(copyFile.event, entry[1])
        THEN /\ eventObjects' =
                  Store(read, ref,
                        ModifyEventCopy(read[parsed], entry[2], CopyConfig,
                                        copyClock))
             /\ copyBatches' =
                  Append(copyBatches, [parsed |-> parsed, modified |-> ref])
        ELSE /\ eventObjects' = read
             /\ copyBatches' = copyBatches
  /\ copyPc' = "batch"
  /\ UNCHANGED <<copyLog, copyFile, objects, copySessionIds, copyWindowIds,
                 copyUuid, copyClock, copyOutputs>>
  /\ UNCHANGED <<replayVars, contentVars, rev1Vars, captureVars, singleVars,
                 handlerVars, genVars>>

\* Time passes.
CopyTick ==
  /\ copyPc # "off"
  /\ copyClock < MaxClock
  /\ copyClock' = copyClock + 1
  /\ UNCHANGED <<copyLog, copyFile, objects, eventObjects, copySessionIds,
                 copyWindowIds, copyUuid, copyOutputs, copyBatches, copyPc>>
  /\ UNCHANGED <<replayVars, contentVars, rev1Vars, captureVars, singleVars,
                 handlerVars, genVars>>

CopyNext ==
  \/ CopyModifyAndRecompress
  \/ CopyLoadAndModifyEvents
  \/ CopyTick

CopySpec == CopyInit /\ [][CopyNext]_vars

\* C32: the record loaded from the log stays as it is in the file through
\* modifyAndRecompress and loadAndModifyEvents, and so does every event
\* parsed from the events file; two calls of modifyAndRecompress on the
\* loaded record return equal chunks.
C32_LoadedRecordUnchanged ==
  /\ copyPc # "off" => objects[LoadedRef] = copyLog
  /\ \A i \in DOMAIN copyBatches :
       eventObjects[copyBatches[i].parsed] = copyFile
  /\ \A i, j \in DOMAIN copyOutputs : copyOutputs[i] = copyOutputs[j]

\* C32 witness: the loaded record was transformed twice, to chunks that
\* differ from it, and an event of its session was rewritten.
C32_Witness ==
  /\ Len(copyOutputs) = MaxPasses
  /\ copyOutputs[1] # copyLog
  /\ copyOutputs[1].tree # copyLog.tree
  /\ copyOutputs[1].blob # copyLog.blob
  /\ Len(copyBatches) > 0
  /\ eventObjects[copyBatches[1].modified] # copyFile

\* ------------------------------- the second revision: one POST per event
MaxSingleRecords == 2   \* records of recordings.jsonl
MaxSingleEvents == 3    \* entries of events.jsonl

\* An absent timestamp; a present one is the text ToISOString gives.
NoTimestamp == <<>>

\* An event of an entry of events.jsonl: timestamp is event.timestamp,
\* time is properties.$time in seconds (0: absent).
SingleEvent(s, ts, tm) == [session_id |-> s, timestamp |-> ts, time |-> tm]

\* An entry of events.jsonl; capture writes originalTimestamp = Date.now().
SingleEntry(e) == [data |-> e, originalTimestamp |-> 1500]

SingleEntries ==
  {SingleEntry(e) :
     e \in {SingleEvent("A", ToISOString(1000), 0),
            SingleEvent("A", ToISOString(2000), 0),
            SingleEvent("A", NoTimestamp, 3),
            SingleEvent("A", NoTimestamp, 0),
            SingleEvent("A2", ToISOString(1000), 0)}}

\* this.config.timestampOffset
TimestampOffset == 86400000

\* eventTimestamp of checkEvent: event.timestamp, else $time in seconds,
\* else the entry's originalTimestamp.
OriginalTimestamp(entry) ==
  IF entry.data.timestamp # NoTimestamp
  THEN entry.data.timestamp
  ELSE IF entry.data.time # 0
       THEN ToISOString(entry.data.time * 1000)
       ELSE ToISOString(entry.originalTimestamp)

\* checkEvent over the entries: the events of the session, each with its
\* _originalTimestamp.
RECURSIVE SessionEvents(_, _)
SessionEvents(entries, originalSessionId) ==
  IF entries = <<>>
  THEN <<>>
  ELSE LET entry == Head(entries)
           rest == SessionEvents(Tail(entries), originalSessionId)
       IN IF Truthy(entry.data.session_id)
             /\ entry.data.session_id = originalSessionId
          THEN <<[event |-> entry.data,
                  _originalTimestamp |-> OriginalTimestamp(entry)]>> \o rest
          ELSE rest

\* x is put behind every element that does not come after it.
RECURSIVE InsertByTime(_, _)
InsertByTime(sorted, x) ==
  IF sorted = <<>>
  THEN <<x>>
  ELSE IF ISOTime(Head(sorted)._originalTimestamp)
            <= ISOTime(x._originalTimestamp)
       THEN <<Head(sorted)>> \o InsertByTime(Tail(sorted), x)
       ELSE <<x>> \o sorted

\* Mutant of SortByOriginalTimestamp: the events are left in file order.
SortByOriginalTimestampNone(es) == es

\* sessionEvents.sort((a, b) => new Date(a._originalTimestamp ||
\* a.timestamp) - new Date(b._originalTimestamp || b.timestamp)); the sort
\* of Array.prototype is stable.
RECURSIVE SortByOriginalTimestamp(_)
SortByOriginalTimestamp(es) ==
  IF es = <<>>
  THEN <<>>
  ELSE InsertByTime(SortByOriginalTimestamp(SubSeq(es, 1, Len(es) - 1)),
                    es[Len(es)])

\* The callback of sessionEvents.map: the copy with the new session id and
\* the shifted timestamp.  orig is not a field of the event: it is the
\* _originalTimestamp the event was sorted by, kept to state the order.
ModifySingleEvent(e, newSessionId) ==
  [event |-> [e.event EXCEPT
                !.session_id = newSessionId,
                !.timestamp = IF @ # NoTimestamp
                              THEN ToISOString(ISOTime(@) - TimestampOffset)
                              ELSE @],
   orig |-> ISOTime(e._originalTimestamp)]

\* loadAndModifyEvents(originalSessionId, newSessionId) of the second
\* revision.
LoadSingleEvents(entries, originalSessionId, newSessionId) ==
  LET sorted ==
        SortByOriginalTimestamp(SessionEvents(entries, originalSessionId))
  IN [j \in 1..Len(sorted) |-> ModifySingleEvent(sorted[j], newSessionId)]

\* A forEach callback: events is modifiedEvents, idx the position of the
\* for loop of sendEventsToPostHog, responses its list.
SingleCall(p, es, i, rs) ==
  [pc |-> p, events |-> es, idx |-> i, responses |-> rs]

\* Answers to an event POST: HTTP statuses, or 0 for a request error.
EventAnswers == HttpStatuses \cup {0}

SingleInit ==
  /\ ReplayInit
  /\ phase = "direct"
  /\ ContentIdle
  /\ Rev1Idle
  /\ CaptureIdle
  /\ CopyIdle
  /\ HandlersIdle
  /\ GenIdle
  /\ s2Pc = "start"
  /\ s2File \in SeqsUpTo(SingleEntries, MaxSingleEvents)
  /\ s2Calls = <<>>
  /\ s2Wire = <<>>

notSingleVars ==
  <<replayVars, contentVars, rev1Vars, captureVars, copyVars, handlerVars,
    genVars>>

\* replaySession: the log is read, recordings.forEach starts one callback
\* per record (each runs modifyAndRecompress and stops at its first await)
\* and replaySession returns.
S2ReplaySession ==
  /\ s2Pc = "start"
  /\ \E n \in 1..MaxSingleRecords :
       s2Calls' = [c \in 1..n |-> SingleCall("load", <<>>, 1, <<>>)]
  /\ s2Pc' = "returned"
  /\ UNCHANGED <<notSingleVars, s2File, s2Wire>>

\* await this.loadAndModifyEvents(...) of callback c; the records of the
\* log belong to session "A".
S2LoadAndModifyEvents(c) ==
  /\ s2Calls[c].pc = "load"
  /\ s2Calls' =
       [s2Calls EXCEPT
          ![c].events = LoadSingleEvents(s2File, "A", randomUUID(c)),
          ![c].pc = "post"]
  /\ UNCHANGED <<notSingleVars, s2Pc, s2File, s2Wire>>

\* await this.sendToPostHog(compressed) of callback c: the recording POST
\* is answered; a status outside 2xx rejects the callback.
S2RecordingResponse(c) ==
  /\ s2Calls[c].pc = "post"
  /\ \E status \in HttpStatuses :
       s2Calls' =
         [s2Calls EXCEPT
            ![c].pc = IF ~Is2xx(status)
                      THEN "rejected"
                      ELSE IF Len(s2Calls[c].events) > 0
                           THEN "loop"
                           ELSE "done"]
  /\ UNCHANGED <<notSingleVars, s2Pc, s2File, s2Wire>>

\* One turn of for (const event of events) in sendEventsToPostHog: the
\* event is compressed and posted to /e/.
S2SendEvent(c) ==
  /\ s2Calls[c].pc = "loop"
  /\ s2Wire' = Append(s2Wire, [call |-> c, event |-> s2Calls[c].idx])
  /\ s2Calls' = [s2Calls EXCEPT ![c].pc = "awaitEvent"]
  /\ UNCHANGED <<notSingleVars, s2Pc, s2File>>

\* The POST of the event is answered: the response, or the error entry of
\* the catch block, is pushed; the loop goes on.
S2EventResponse(c) ==
  /\ s2Calls[c].pc = "awaitEvent"
  /\ \E reply \in EventAnswers :
       s2Calls' =
         [s2Calls EXCEPT
            ![c].responses =
               Append(@, [event |-> s2Calls[c].idx,
                          error |-> ~Is2xx(reply)]),
            ![c].idx = @ + 1,
            ![c].pc = IF s2Calls[c].idx = Len(s2Calls[c].events)
                      THEN "done"
                      ELSE "loop"]
  /\ UNCHANGED <<notSingleVars, s2Pc, s2File, s2Wire>>

SingleNext ==
  \/ S2ReplaySession
  \/ \E c \in DOMAIN s2Calls : S2LoadAndModifyEvents(c)
  \/ \E c \in DOMAIN s2Calls : S2RecordingResponse(c)
  \/ \E c \in DOMAIN s2Calls : S2SendEvent(c)
  \/ \E c \in DOMAIN s2Calls : S2EventResponse(c)

SingleSpec == SingleInit /\ [][SingleNext]_vars

\* The event POSTs of callback c, in the order they were written.
WireOf(c) == SelectSeq(s2Wire, LAMBDA w : w.call = c)

\* C31: in every call of sendEventsToPostHog the events are posted one
\* after the other (the next one after the answer to the one before), in
\* non-decreasing order of their original timestamps; the responses list
\* has one entry per answered event, in the order of dispatch, an error
\* entry exactly for the events whose POST failed; and when the call ends
\* every event was posted.
C31_EventsOneByOneInOrder ==
  \A c \in DOMAIN s2Calls :
    LET call == s2Calls[c]
        wire == WireOf(c)
    IN /\ \A j \in DOMAIN wire : wire[j].event = j
       /\ \A j \in DOMAIN call.responses : call.responses[j].event = j
       /\ Len(wire) = Len(call.responses)
                        + (IF call.pc = "awaitEvent" THEN 1 ELSE 0)
       /\ \A i, j \in DOMAIN call.events :
            i <= j => call.events[i].orig <= call.events[j].orig
       /\ call.pc = "done" => Len(call.responses) = Len(call.events)

\* C31 witness: a call has posted three events whose order in the file is
\* not the order of their timestamps; the first POST failed, the others
\* were answered.
C31_Witness ==
  \E c \in DOMAIN s2Calls :
    /\ s2Calls[c].pc = "done"
    /\ Len(s2Calls[c].events) = 3
    /\ s2Calls[c].events[1].orig < s2Calls[c].events[3].orig
    /\ ISOTime(OriginalTimestamp(s2File[1]))
         > ISOTime(OriginalTimestamp(s2File[3]))
    /\ s2Calls[c].responses[1].error
    /\ ~s2Calls[c].responses[2].error

\* ------------------------------------- capture handlers in progress at once
\* Node runs one handler at a time between awaits.  Of the awaits of a
\* handler only those on the file system (fs.access, fs.mkdir,
\* fs.appendFile) let another request in: the awaits inside
\* decompressNestedSnapshots resolve without I/O.  The file system
\* operations of different handlers complete in any order.
MaxHandlers == 2        \* POSTs received by the proxies

\* The POSTs of a client: an empty body, a JSON text, a gzip stream
\* announced by compression=gzip-js, and a stream that does not gunzip.
ClientRequests(p) ==
  {Request(p, Undefined, Undefined, "application/json", EmptyBody),
   Request(p, Undefined, Undefined, "application/json",
           Body("plain", TRUE,
                Json(<<Snapshot(3, <<123, 125>>, FALSE, FALSE)>>))),
   Request(p, Undefined, "gzip-js", "text/plain",
           Body("gzip", TRUE,
                Json(<<Snapshot(3, <<123, 125>>, FALSE, FALSE)>>))),
   Request(p, Undefined, "gzip-js", "text/plain",
           Body("corrupt", FALSE, EmptyObject))}

\* The handler of a request: saves is what the handler decided to save,
\* lost is why its record was not written.
Handler(req, p, d, l) == [req |-> req, pc |-> p, saves |-> d, lost |-> l]

\* The file that the handler of a path writes.
FileOf(path) ==
  IF path = "/s/" THEN "recordings"
  ELSE IF path = "/e/" THEN "events" ELSE "proxyEvents"

\* What the handlers of /s/* and /e/* hand to appendToJSONL.
SaveDecision(req) ==
  IF req.path = "/s/" THEN RecordingRecord(req) ELSE EventRecord(req)

\* The handler of /i/v0/e/* (proxy.js): a non-empty raw body is saved,
\* gunzipped or not; with an empty body the handler reads behaviorInfo,
\* which is defined nowhere, and throws.
ProxyEventOutcome(req) ==
  IF req.body.enc # "empty" THEN "saved" ELSE "threw"

\* fs.mkdir("data"): EEXIST when the directory exists.
MkdirOutcome(exists) == IF exists THEN "EEXIST" ELSE "created"

HandlersInit ==
  /\ ReplayInit
  /\ phase = "direct"
  /\ ContentIdle
  /\ Rev1Idle
  /\ CaptureIdle
  /\ CopyIdle
  /\ SingleIdle
  /\ GenIdle
  /\ dataDir \in BOOLEAN
  /\ handlers = <<>>
  /\ files = NoFiles
  /\ forwards = <<>>

notHandlerVars ==
  <<replayVars, contentVars, rev1Vars, captureVars, copyVars, singleVars,
    genVars>>

\* await proxyRequest(req, res, "us.i.posthog.com") of handler i.
Forward(i) == forwards' = Append(forwards, i)

\* A line is appended to the file of handler i.
AppendLine(i, record) ==
  files' = [files EXCEPT
              ![FileOf(handlers[i].req.path)] =
                 Append(@, [request |-> i, record |-> record])]

\* app.post("/s/*") and app.post("/e/*") of the capture proxy: the body
\* parser and the handler up to its first await on the file system
\* (fs.access in ensureDataDir), or up to proxyRequest when nothing is
\* saved.
HandlerStarts ==
  /\ Len(handlers) < MaxHandlers
  /\ \E p \in {"/s/", "/e/"} : \E req \in ClientRequests(p) :
       LET d == SaveDecision(req)
       IN /\ handlers' =
               Append(handlers,
                      Handler(req, IF d.saved THEN "access" ELSE "done",
                              d, "no"))
          /\ forwards' = IF d.saved
                         THEN forwards
                         ELSE Append(forwards, Len(handlers) + 1)
  /\ UNCHANGED <<notHandlerVars, dataDir, files>>

\* fs.access("data") of handler i completes: the directory is there and
\* fs.appendFile starts, or it is not and fs.mkdir starts.
AccessCompletes(i) ==
  /\ handlers[i].pc = "access"
  /\ handlers' = [handlers EXCEPT
                    ![i].pc = IF dataDir THEN "append" ELSE "mkdir"]
  /\ UNCHANGED <<notHandlerVars, dataDir, files, forwards>>

\* fs.mkdir("data") of handler i completes: fs.appendFile starts, or the
\* error goes to the catch block of appendToJSONL and the handler goes on
\* to proxyRequest.
MkdirCompletes(i) ==
  /\ handlers[i].pc = "mkdir"
  /\ IF MkdirOutcome(dataDir) = "created"
     THEN /\ dataDir' = TRUE
          /\ handlers' = [handlers EXCEPT ![i].pc = "append"]
          /\ UNCHANGED forwards
     ELSE /\ dataDir' = dataDir
          /\ handlers' = [handlers EXCEPT ![i].pc = "done",
                                          ![i].lost = "EEXIST"]
          /\ Forward(i)
  /\ UNCHANGED <<notHandlerVars, files>>

\* fs.appendFile of handler i completes, with the line written or with an
\* error (caught by appendToJSONL); the handler goes on to proxyRequest.
AppendCompletes(i) ==
  /\ handlers[i].pc = "append"
  /\ \E ok \in BOOLEAN :
       IF ok
       THEN /\ AppendLine(i, handlers[i].saves.record)
            /\ handlers' = [handlers EXCEPT ![i].pc = "done"]
       ELSE /\ files' = files
            /\ handlers' = [handlers EXCEPT ![i].pc = "done",
                                            ![i].lost = "EIO"]
  /\ Forward(i)
  /\ UNCHANGED <<notHandlerVars, dataDir>>

\* app.post("/i/v0/e/*") of proxy.js: saveEventToFile appends with
\* fs.appendFileSync, so the handler runs from the body parser to
\* proxyRequest in one piece, or to the ReferenceError.
ProxyEventHandler ==
  /\ Len(handlers) < MaxHandlers
  /\ \E req \in ClientRequests("/i/v0/e/") : \E ok \in BOOLEAN :
       LET i == Len(handlers) + 1
           d == [saved |-> TRUE,
                 record |-> LogRecord("event", BufferData(req.body),
                                      NoDecompressed, req)]
       IN IF ProxyEventOutcome(req) = "saved"
          THEN /\ handlers' =
                    Append(handlers,
                           Handler(req, "done", d,
                                   IF ok THEN "no" ELSE "EIO"))
               /\ files' = IF ok
                           THEN [files EXCEPT
                                   !.proxyEvents =
                                      Append(@, [request |-> i,
                                                 record |-> d.record])]
                           ELSE files
               /\ forwards' = Append(forwards, i)
          ELSE /\ ok
               /\ handlers' =
                    Append(handlers,
                           Handler(req, "threw",
                                   [d EXCEPT !.saved = FALSE], "no"))
               /\ UNCHANGED <<files, forwards>>
  /\ UNCHANGED <<notHandlerVars, dataDir>>

HandlersNext ==
  \/ HandlerStarts
  \/ \E i \in DOMAIN handlers : AccessCompletes(i)
  \/ \E i \in DOMAIN handlers : MkdirCompletes(i)
  \/ \E i \in DOMAIN handlers : AppendCompletes(i)
  \/ ProxyEventHandler

HandlersSpec == HandlersInit /\ [][HandlersNext]_vars

\* The lines that handler i wrote to its file.
LinesOf(i) ==
  {j \in DOMAIN files[FileOf(handlers[i].req.path)] :
     files[FileOf(handlers[i].req.path)][j].request = i}

\* The times that handler i called proxyRequest.
ForwardsOf(i) == {j \in DOMAIN forwards : forwards[j] = i}

\* C35: every handler that went to save its request, and whose
\* fs.appendFile did not fail, has written exactly one line when it ends.
C35_NoRecordLost ==
  \A i \in DOMAIN handlers :
    /\ Cardinality(LinesOf(i)) <= 1
    /\ (/\ handlers[i].pc = "done"
        /\ handlers[i].saves.saved
        /\ handlers[i].lost # "EIO")
       => Cardinality(LinesOf(i)) = 1

\* C36: the lines of the recordings file are in the order in which their
\* requests were received.
C36_LogInReceiptOrder ==
  \A j, k \in DOMAIN files.recordings :
    j < k => files.recordings[j].request < files.recordings[k].request

\* C37: no request is forwarded twice, and a handler that has ended has
\* forwarded its request.
C37_ForwardedExactlyOnce ==
  \A i \in DOMAIN handlers :
    /\ Cardinality(ForwardsOf(i)) <= 1
    /\ handlers[i].pc \in {"done", "threw"}
       => Cardinality(ForwardsOf(i)) = 1

\* ------------------------------------------------ the generation driver
\* run() of main.js.  The users are kept as the number of those that have
\* not churned and the number of those that have; a replaySession call of
\* the inner for loop is taken to return.
MaxDays == 3            \* days from start_date to end_date

\* generation-config.json: starting_user_count, dau_percentage (in
\* percent), daily_signups_growth (in thousandths), whether churn_rate is
\* 0 or between 0 and 1, and the weekday of start_date (getDay()).
GenConfigs ==
  [startingUserCount : {1, 2}, dauPercent : {50, 100},
   growthPermille : {5, 20}, churn : {"never", "sometimes"},
   startWeekday : {1, 5}]

\* Math.ceil(a / b) and Math.round(a / b) for b > 0.
CeilDiv(a, b) == -((-a) \div b)

RoundDiv(a, b) == (2 * a + b) \div (2 * b)

MaxOf(a, b) == IF a >= b THEN a ELSE b

\* date.getDay() of the day in progress is 0 or 6.
IsWeekend(cfg, n) == (cfg.startWeekday + n) % 7 \in {0, 6}

\* getWeekdayOrWeekendDAU(date, dau): the values it can return.
\* weekendVariance lies between 0.05 and 0.15; on a weekend the result is
\* Math.max(1, Math.round(dau * weekendVariance)), which is never 0, so
\* weekendDau || dau is weekendDau; on a weekday it is dau.
GetWeekdayOrWeekendDAU(weekend, target) ==
  IF weekend
  THEN {MaxOf(1, RoundDiv(target * v, 100)) : v \in 5..15}
  ELSE {target}

\* dailySignups(currentTotalUsers): the numbers of users it can add.
\* variance lies between -0.01 and 0.005; generateUsers of a count that is
\* not positive returns no user.
DailySignups(total, cfg) ==
  {MaxOf(0, CeilDiv(total * r, 1000)) :
     r \in (cfg.growthPermille - 9)..(cfg.growthPermille + 4)}

\* Math.ceil(users.filter(u => !u.churned).length * config.dau_percentage)
NextDau(active, cfg) == CeilDiv(active * cfg.dauPercent, 100)

GenInit ==
  /\ ReplayInit
  /\ phase = "direct"
  /\ ContentIdle
  /\ Rev1Idle
  /\ CaptureIdle
  /\ CopyIdle
  /\ SingleIdle
  /\ HandlersIdle
  /\ genPc = "day"
  /\ genConfig \in GenConfigs
  /\ day = 0
  /\ activeUsers = genConfig.startingUserCount
  /\ churnedUsers = 0
  /\ dau = NextDau(activeUsers, genConfig)
  /\ dauLimit = 0
  /\ dailyUserCount = 0
  /\ draws = 0

notGenVars ==
  <<replayVars, contentVars, rev1Vars, captureVars, copyVars, singleVars,
    handlerVars>>

\* The head of the for loop over the days: d <= endDate holds, the target
\* of the day is computed; or it does not hold and run() returns.
GenDayStarts ==
  /\ genPc = "day"
  /\ IF day < MaxDays
     THEN /\ dauLimit' \in GetWeekdayOrWeekendDAU(IsWeekend(genConfig, day),
                                                  dau)
          /\ genPc' = "while"
     ELSE /\ dauLimit' = dauLimit
          /\ genPc' = "finished"
  /\ dailyUserCount' = 0
  /\ UNCHANGED <<notGenVars, genConfig, day, activeUsers, churnedUsers, dau,
                 draws>>

\* One turn of while (dailyUserCount < dauLimit) that draws a user who has
\* churned: nothing is counted.
GenDrawChurned ==
  /\ genPc = "while"
  /\ dailyUserCount < dauLimit
  /\ churnedUsers > 0
  /\ draws' = 1 - draws
  /\ UNCHANGED <<notGenVars, genPc, genConfig, day, activeUsers,
                 churnedUsers, dau, dauLimit, dailyUserCount>>

\* One turn that draws a user who has not churned: the sessions of the
\* user are replayed, the user is counted and may churn.
GenDrawActive ==
  /\ genPc = "while"
  /\ dailyUserCount < dauLimit
  /\ activeUsers > 0
  /\ dailyUserCount' = dailyUserCount + 1
  /\ \E churns \in IF genConfig.churn = "never" THEN {FALSE} ELSE BOOLEAN :
       /\ activeUsers' = IF churns THEN activeUsers - 1 ELSE activeUsers
       /\ churnedUsers' = IF churns THEN churnedUsers + 1 ELSE churnedUsers
  /\ draws' = 1 - draws
  /\ UNCHANGED <<notGenVars, genPc, genConfig, day, dau, dauLimit>>

\* The while loop is left: the signups of the day are added, the target of
\* the next day is computed, d.setDate(d.getDate() + 1).
GenDayEnds ==
  /\ genPc = "while"
  /\ dailyUserCount >= dauLimit
  /\ \E n \in DailySignups(activeUsers + churnedUsers, genConfig) :
       /\ activeUsers' = activeUsers + n
       /\ dau' = NextDau(activeUsers + n, genConfig)
  /\ day' = day + 1
  /\ genPc' = "day"
  /\ UNCHANGED <<notGenVars, genConfig, churnedUsers, dauLimit,
                 dailyUserCount, draws>>

GenNext ==
  \/ GenDayStarts
  \/ GenDrawChurned
  \/ GenDrawActive
  \/ GenDayEnds

\* The loop keeps running, and Math.random() does not avoid the users who
\* have not churned for ever.
GenFairness ==
  /\ WF_vars(GenDayStarts)
  /\ WF_vars(GenDayEnds)
  /\ SF_vars(GenDrawActive)

GenSpec == GenInit /\ [][GenNext]_vars /\ GenFairness

\* C39: run() reaches the end of the date range.
C39_DriverTerminates == <>(genPc = "finished")

====
